---------------------------- MODULE Spec2Model ----------------------------
(***************************************************************************)
(* Byte-level model of media-metadata-surgery's edit / strip / view paths. *)
(* A file is a sequence of bytes (0..255).  Every handler is translated    *)
(* from its Go source; operations run in place (outPath = "", so           *)
(* core.ResolveOutPath returns the input path).                            *)
(***************************************************************************)
EXTENDS Integers, Sequences, FiniteSets, TLC

VARIABLES
    file,     \* bytes of the file at `path`
    before,   \* bytes of the file before the last operation
    last,     \* the last operation: name, options, outcome
    fields,   \* Metadata.Fields returned by the last View
    nops      \* operations run so far

vars == <<file, before, last, fields, nops>>

(***************************************************************************)
(* Bounds of the model                                                     *)
(***************************************************************************)
MaxOps == 2

(***************************************************************************)
(* Byte-slice helpers (Go slices are 0-based and half-open)                *)
(***************************************************************************)
Slice(s, lo, hi) == SubSeq(s, lo + 1, hi)

From(s, lo) == SubSeq(s, lo + 1, Len(s))

Zeros(n) == [i \in 1..n |-> 0]

MinOf(S) == CHOOSE x \in S : \A y \in S : x <= y

MaxOf(S) == CHOOSE x \in S : \A y \in S : x >= y

\* bytes.Index: first 0-based offset of pat in data, -1 when absent
Index(data, pat) ==
    LET hits == {i \in 0..(Len(data) - Len(pat)) :
                    SubSeq(data, i + 1, i + Len(pat)) = pat}
    IN IF hits = {} THEN -1 ELSE MinOf(hits)

\* bytes.IndexByte
IndexByte(data, b) == Index(data, <<b>>)

HasPrefix(data, p) == Len(data) >= Len(p) /\ SubSeq(data, 1, Len(p)) = p

\* binary.BigEndian.Uint32 / Uint16 / Uint64 and PutUint32
BE32(b) == ((b[1] * 256 + b[2]) * 256 + b[3]) * 256 + b[4]

BE16(b) == b[1] * 256 + b[2]

RECURSIVE BEn(_)
BEn(b) == IF Len(b) = 0 THEN 0
          ELSE BEn(SubSeq(b, 1, Len(b) - 1)) * 256 + b[Len(b)]

PutBE32(n) == << (n \div 16777216) % 256, (n \div 65536) % 256,
                 (n \div 256) % 256, n % 256 >>

\* binary.LittleEndian
LE32(b) == ((b[4] * 256 + b[3]) * 256 + b[2]) * 256 + b[1]

PutLE32(n) == << n % 256, (n \div 256) % 256, (n \div 65536) % 256,
                 (n \div 16777216) % 256 >>

PutLE16(n) == << n % 256, (n \div 256) % 256 >>

\* every order in which Go may range over a map with key set S
Orders(S) == {s \in [1..Cardinality(S) -> S] :
                 \A i, j \in 1..Cardinality(S) : i # j => s[i] # s[j]}

\* ASCII case folding (strings.ToLower / ToUpper / EqualFold on ASCII keys)
LowerByte(b) == IF b >= 65 /\ b <= 90 THEN b + 32 ELSE b

UpperByte(b) == IF b >= 97 /\ b <= 122 THEN b - 32 ELSE b

ToLower(s) == [i \in 1..Len(s) |-> LowerByte(s[i])]

ToUpper(s) == [i \in 1..Len(s) |-> UpperByte(s[i])]

EqualFold(a, b) == ToLower(a) = ToLower(b)

\* strings.TrimRight(s, "\x00")
RECURSIVE TrimRightNul(_)
TrimRightNul(s) ==
    IF Len(s) > 0 /\ s[Len(s)] = 0 THEN TrimRightNul(SubSeq(s, 1, Len(s) - 1))
    ELSE s

IsSpace(b) == b \in {9, 10, 11, 12, 13, 32}

\* strings.TrimSpace
RECURSIVE TrimSpace(_)
TrimSpace(s) ==
    IF Len(s) > 0 /\ IsSpace(s[1]) THEN TrimSpace(Tail(s))
    ELSE IF Len(s) > 0 /\ IsSpace(s[Len(s)])
         THEN TrimSpace(SubSeq(s, 1, Len(s) - 1))
         ELSE s

\* fmt "%d" and "%02d"
RECURSIVE Dec(_)
Dec(n) == IF n < 10 THEN <<48 + n>> ELSE Dec(n \div 10) \o <<48 + (n % 10)>>

Dec02(n) == IF n < 10 THEN <<48, 48 + n>> ELSE Dec(n)

\* the outcome of one handler call
Ok(out)  == [err |-> "none",  wrote |-> TRUE,  out |-> out]

NoWrite  == [err |-> "none",  wrote |-> FALSE, out |-> <<>>]

Fail     == [err |-> "error", wrote |-> FALSE, out |-> <<>>]

Panic    == [err |-> "panic", wrote |-> FALSE, out |-> <<>>]


(***************************************************************************)
(* MP4 / MOV  (core/video/video.go)                                        *)
(***************************************************************************)
Tftyp == <<102, 116, 121, 112>>
Tmoov == <<109, 111, 111, 118>>
Tudta == <<117, 100, 116, 97>>
Tmeta == <<109, 101, 116, 97>>
Tilst == <<105, 108, 115, 116>>
Tmvhd == <<109, 118, 104, 100>>
Tmdat == <<109, 100, 97, 116>>
Tdata == <<100, 97, 116, 97>>
Tfree == <<45, 45, 45, 45>>      \* "----"
Tmean == <<109, 101, 97, 110>>
Tname == <<110, 97, 109, 101>>

\* itunesAtomNames: atom key (4 bytes, 0xA9 = (c)) -> friendly name
itunesAtomNames == <<
    [key |-> <<169, 110, 97, 109>>, name |-> <<84, 105, 116, 108, 101>>],                \* Title
    [key |-> <<169, 65, 82, 84>>,   name |-> <<65, 114, 116, 105, 115, 116>>],            \* Artist
    [key |-> <<169, 97, 108, 98>>,  name |-> <<65, 108, 98, 117, 109>>],                  \* Album
    [key |-> <<169, 100, 97, 121>>, name |-> <<89, 101, 97, 114>>],                       \* Year
    [key |-> <<169, 103, 101, 110>>, name |-> <<71, 101, 110, 114, 101>>],                \* Genre
    [key |-> <<169, 99, 109, 116>>, name |-> <<67, 111, 109, 109, 101, 110, 116>>],       \* Comment
    [key |-> <<169, 108, 121, 114>>, name |-> <<76, 121, 114, 105, 99, 115>>],            \* Lyrics
    [key |-> <<169, 116, 111, 111>>,
     name |-> <<69, 110, 99, 111, 100, 105, 110, 103, 84, 111, 111, 108>>],               \* EncodingTool
    [key |-> <<169, 119, 114, 116>>, name |-> <<67, 111, 109, 112, 111, 115, 101, 114>>], \* Composer
    [key |-> <<97, 65, 82, 84>>,
     name |-> <<65, 108, 98, 117, 109, 65, 114, 116, 105, 115, 116>>],                    \* AlbumArtist
    [key |-> <<99, 112, 114, 116>>,
     name |-> <<67, 111, 112, 121, 114, 105, 103, 104, 116>>],                            \* Copyright
    [key |-> <<100, 101, 115, 99>>,
     name |-> <<68, 101, 115, 99, 114, 105, 112, 116, 105, 111, 110>>],                   \* Description
    [key |-> <<108, 100, 101, 115>>,
     name |-> <<76, 111, 110, 103, 68, 101, 115, 99, 114, 105, 112, 116, 105, 111, 110>>],
    [key |-> <<116, 118, 115, 104>>,
     name |-> <<84, 86, 83, 104, 111, 119, 78, 97, 109, 101>>],                           \* TVShowName
    [key |-> <<116, 118, 115, 110>>, name |-> <<84, 86, 83, 101, 97, 115, 111, 110>>],    \* TVSeason
    [key |-> <<116, 118, 101, 115>>,
     name |-> <<84, 86, 69, 112, 105, 115, 111, 100, 101>>],                              \* TVEpisode
    [key |-> <<116, 118, 101, 110>>,
     name |-> <<84, 86, 69, 112, 105, 115, 111, 100, 101, 78, 97, 109, 101>>],            \* TVEpisodeName
    [key |-> <<112, 117, 114, 108>>,
     name |-> <<80, 111, 100, 99, 97, 115, 116, 85, 82, 76>>],                            \* PodcastURL
    [key |-> <<99, 97, 116, 103>>, name |-> <<67, 97, 116, 101, 103, 111, 114, 121>>],    \* Category
    [key |-> <<107, 101, 121, 119>>, name |-> <<75, 101, 121, 119, 111, 114, 100, 115>>], \* Keywords
    [key |-> <<99, 112, 105, 108>>,
     name |-> <<67, 111, 109, 112, 105, 108, 97, 116, 105, 111, 110>>],                   \* Compilation
    [key |-> <<116, 109, 112, 111>>, name |-> <<66, 80, 77>>],                            \* BPM
    [key |-> <<104, 100, 118, 100>>, name |-> <<72, 68, 86, 105, 100, 101, 111>>],        \* HDVideo
    [key |-> <<115, 116, 105, 107>>,
     name |-> <<77, 101, 100, 105, 97, 75, 105, 110, 100>>],                              \* MediaKind
    [key |-> <<114, 116, 110, 103>>,
     name |-> <<67, 111, 110, 116, 101, 110, 116, 82, 97, 116, 105, 110, 103>>] >>        \* ContentRating

\* itunesAtomNames[boxType], "" when the key is absent
ItunesName(boxType) ==
    LET hit == {i \in 1..Len(itunesAtomNames) : itunesAtomNames[i].key = boxType}
    IN IF hit = {} THEN <<>> ELSE itunesAtomNames[CHOOSE i \in hit : TRUE].name

\* The case labels of walkMP4Boxes' iTunes branch as the compiler sees them: the
\* source spells the (c) atoms with the two-byte UTF-8 sign (0xC2 0xA9).
ItunesCaseLabels == {
    <<194, 169, 110, 97, 109>>, <<194, 169, 65, 82, 84>>, <<194, 169, 97, 108, 98>>,
    <<194, 169, 100, 97, 121>>, <<194, 169, 103, 101, 110>>, <<194, 169, 99, 109, 116>>,
    <<194, 169, 108, 121, 114>>, <<194, 169, 116, 111, 111>>, <<194, 169, 119, 114, 116>>,
    <<97, 65, 82, 84>>, <<99, 112, 114, 116>>, <<100, 101, 115, 99>>, <<108, 100, 101, 115>>,
    <<116, 118, 115, 104>>, <<116, 118, 115, 110>>, <<116, 118, 101, 115>>,
    <<116, 118, 101, 110>>, <<112, 117, 114, 108>>, <<99, 97, 116, 103>>,
    <<107, 101, 121, 119>> }

Field(k, v, cat, ed) == [Key |-> k, Value |-> v, Category |-> cat, Editable |-> ed]

extractiTunesData(data) ==
    IF Len(data) < 16 THEN <<>>
    ELSE IF Slice(data, 4, 8) # Tdata THEN <<>>
    ELSE TrimRightNul(From(data, 16))

\* parseFreeformAtom: the loop over mean / name / data sub-atoms
RECURSIVE FreeformLoop(_, _, _, _, _)
FreeformLoop(data, i, domain, name, value) ==
    IF ~(i + 8 < Len(data)) THEN [domain |-> domain, name |-> name, value |-> value]
    ELSE LET size == BE32(Slice(data, i, i + 4))
             typ  == Slice(data, i + 4, i + 8)
         IN IF size < 12 \/ i + size > Len(data)
            THEN [domain |-> domain, name |-> name, value |-> value]
            ELSE LET payload == Slice(data, i + 12, i + size)
                 IN FreeformLoop(data, i + size,
                        IF typ = Tmean THEN payload ELSE domain,
                        IF typ = Tname THEN payload ELSE name,
                        IF typ = Tdata /\ Len(payload) >= 4 THEN From(payload, 4) ELSE value)

parseFreeformAtom(data) ==
    LET r == FreeformLoop(data, 0, <<>>, <<>>, <<>>)
    IN IF r.name # <<>> /\ r.value # <<>>
       THEN [key |-> IF r.domain # <<>> THEN r.domain \o <<58>> \o r.name ELSE r.name,
             val |-> r.value]
       ELSE [key |-> <<>>, val |-> <<>>]

formatDuration(seconds) ==
    LET h == seconds \div 3600
        m == (seconds % 3600) \div 60
        s == seconds % 60
    IN IF h > 0
       THEN Dec(h) \o <<104, 32>> \o Dec02(m) \o <<109, 32>> \o Dec02(s) \o <<115>>
       ELSE Dec(m) \o <<109, 32>> \o Dec02(s) \o <<115>>

min64(a, b) == IF a < b THEN a ELSE b

\* io.ReadFull into a fresh n-byte buffer at reader offset rp: the bytes read (zero
\* where the file ended) and the reader offset afterwards
ReadBuf(data, rp, n) == [i \in 1..n |-> IF rp + i <= Len(data) THEN data[rp + i] ELSE 0]

ReadPos(data, rp, n) == IF rp >= Len(data) THEN rp ELSE min64(rp + n, Len(data))

\* r.Seek(target, io.SeekStart): a negative target fails and leaves the offset
SeekTo(rp, target) == IF target < 0 THEN rp ELSE target

WalkDepthLimit == 8


\* walkMP4Boxes(r, start, limit, m, depth).  rp is r's offset, acc the fields so
\* far; the result carries the fields, r's offset on return, and whether a
\* make([]byte, n) with negative n panicked.
RECURSIVE walkMP4Boxes(_, _, _, _, _, _)
walkMP4Boxes(data, rp, pos, limit, depth, acc) ==
    LET done(p) == [fields |-> acc, rp |-> p, panic |-> FALSE]
    IN
    IF depth > WalkDepthLimit THEN done(rp)
    ELSE IF limit >= 0 /\ pos >= limit THEN done(rp)
    ELSE IF rp + 8 > Len(data) THEN done(ReadPos(data, rp, 8))
    ELSE
    LET hdr     == Slice(data, rp, rp + 8)
        size32  == BE32(Slice(hdr, 0, 4))
        boxType == Slice(hdr, 4, 8)
        ext     == size32 = 1
    IN
    IF ext /\ rp + 16 > Len(data) THEN done(ReadPos(data, rp + 8, 8))
    ELSE
    LET size     == IF ext THEN BEn(Slice(data, rp + 8, rp + 16)) ELSE size32
        dataSize == IF ext THEN size - 16 ELSE size32 - 8
        curPos   == IF ext THEN rp + 16 ELSE rp + 8
        next(p, a) == walkMP4Boxes(data, p, pos + size, limit, depth, a)
    IN
    IF size = 0 THEN done(curPos)
    ELSE IF boxType = Tftyp THEN
        LET brand == ReadBuf(data, curPos, 4)
            f     == Field(<<66, 114, 97, 110, 100>>, TrimSpace(brand), "MP4 Container", FALSE)
        IN next(SeekTo(ReadPos(data, curPos, 4), curPos + dataSize), Append(acc, f))
    ELSE IF boxType \in {Tmoov, Tudta, Tmeta, Tilst} THEN
        LET inner == IF boxType = Tmeta
                     THEN walkMP4Boxes(data, curPos + 4, curPos + 4, curPos + dataSize,
                                       depth + 1, acc)
                     ELSE walkMP4Boxes(data, curPos, curPos, curPos + dataSize,
                                       depth + 1, acc)
        IN IF inner.panic THEN inner
           ELSE next(SeekTo(inner.rp, curPos + dataSize), inner.fields)
    ELSE IF boxType = Tmvhd THEN
        IF min64(dataSize, 108) < 0 THEN [fields |-> acc, rp |-> curPos, panic |-> TRUE]
        ELSE
        LET n   == min64(dataSize, 108)
            buf == ReadBuf(data, curPos, n)
            emit == n >= 20 /\ buf[1] = 0 /\ BE32(Slice(buf, 12, 16)) > 0
            f   == Field(<<68, 117, 114, 97, 116, 105, 111, 110>>,
                         formatDuration(BE32(Slice(buf, 16, 20)) \div BE32(Slice(buf, 12, 16))),
                         "MP4 Container", FALSE)
        IN next(SeekTo(ReadPos(data, curPos, n), curPos + dataSize),
                IF emit THEN Append(acc, f) ELSE acc)
    ELSE IF boxType \in ItunesCaseLabels THEN
        IF dataSize < 0 THEN [fields |-> acc, rp |-> curPos, panic |-> TRUE]
        ELSE
        LET child == ReadBuf(data, curPos, dataSize)
            val   == extractiTunesData(child)
            name  == IF ItunesName(boxType) = <<>> THEN boxType ELSE ItunesName(boxType)
        IN next(ReadPos(data, curPos, dataSize),
                IF val # <<>> THEN Append(acc, Field(name, val, "iTunes Metadata", TRUE))
                ELSE acc)
    ELSE IF boxType = Tfree THEN
        IF dataSize < 0 THEN [fields |-> acc, rp |-> curPos, panic |-> TRUE]
        ELSE
        LET child == ReadBuf(data, curPos, dataSize)
            kv    == parseFreeformAtom(child)
        IN next(ReadPos(data, curPos, dataSize),
                IF kv.key # <<>> /\ kv.val # <<>>
                THEN Append(acc, Field(kv.key, kv.val, "iTunes Custom", FALSE))
                ELSE acc)
    ELSE next(SeekTo(curPos, curPos + dataSize), acc)

\* viewMP4: walk the top-level boxes of the file
viewMP4(data) == walkMP4Boxes(data, 0, 0, -1, 0, <<>>)

buildiTunesDataAtom(val) ==
    LET sized  == PutBE32(16 + Len(val)) \o Zeros(12 + Len(val))
        tagged == [i \in 1..Len(sized) |-> IF i \in 5..8 THEN Tdata[i - 4] ELSE sized[i]]
        flag   == [tagged EXCEPT ![8] = 1]       \* dataAtom[7] = 0x01
    IN [i \in 1..Len(flag) |-> IF i > 16 THEN val[i - 16] ELSE flag[i]]

packAtom(name, content) ==
    PutBE32(8 + Len(content)) \o SubSeq(name, 1, 4) \o content

fixMP4Sizes(data) == data

\* the atom key editMP4 picks for a requested key k
AtomKeyFor(k) ==
    LET hit == {i \in 1..Len(itunesAtomNames) :
                   EqualFold(itunesAtomNames[i].name, k) \/ EqualFold(itunesAtomNames[i].key, k)}
    IN IF hit = {} THEN k ELSE itunesAtomNames[CHOOSE i \in hit : TRUE].key

RECURSIVE IlstContent(_)
IlstContent(entries) ==
    IF entries = <<>> THEN <<>>
    ELSE LET e        == Head(entries)
             atomData == buildiTunesDataAtom(e.val)
         IN PutBE32(8 + Len(atomData)) \o e.name \o atomData \o IlstContent(Tail(entries))

patchMP4Ilst(data, entries, delKeys) ==
    LET ilstContent == IlstContent(entries)
        ilstSize    == 8 + Len(ilstContent)
        ilstIdx     == Index(data, Tilst)
    IN
    IF ilstIdx > 4 THEN
        LET existingSize == BE32(Slice(data, ilstIdx - 4, ilstIdx))
            newAtom      == PutBE32(ilstSize) \o Tilst \o ilstContent
        IN IF ilstIdx - 4 + existingSize > Len(data) THEN Panic
           ELSE Ok(fixMP4Sizes(Slice(data, 0, ilstIdx - 4) \o newAtom
                               \o From(data, ilstIdx - 4 + existingSize)))
    ELSE
    LET moovIdx == Index(data, Tmoov)
    IN
    IF moovIdx < 4 THEN Fail
    ELSE
        LET metaContent == <<0, 0, 0, 0>> \o packAtom(Tilst, ilstContent)
            udtaContent == packAtom(Tmeta, metaContent)
            udtaBuf     == packAtom(Tudta, udtaContent)
            moovSize    == BE32(Slice(data, moovIdx - 4, moovIdx))
            insertAt    == moovIdx - 4 + moovSize
        IN IF insertAt > Len(data) THEN Panic
           ELSE Ok(fixMP4Sizes(Slice(data, 0, insertAt) \o udtaBuf \o From(data, insertAt)))

\* editMP4; order is the order in which Go ranges over opts.Set
editMP4(data, set, order, del, dry) ==
    IF dry THEN NoWrite
    ELSE
    LET entries == [i \in 1..Len(order) |->
                       [name |-> AtomKeyFor(order[i]), val |-> set[order[i]]]]
    IN IF Len(entries) = 0 /\ Len(del) = 0 THEN Fail
       ELSE patchMP4Ilst(data, entries, del)

removeMP4Atom(data, atomType) ==
    LET idx == Index(data, atomType)
    IN IF idx < 4 THEN data
       ELSE LET size == BE32(Slice(data, idx - 4, idx))
            IN IF idx - 4 + size > Len(data) THEN data
               ELSE Slice(data, 0, idx - 4) \o From(data, idx - 4 + size)

stripMP4(data, dry) ==
    IF dry THEN NoWrite
    ELSE Ok(removeMP4Atom(data, Tudta))


(***************************************************************************)
(* Operations as recorded in `last`                                        *)
(***************************************************************************)
NoSet == <<>>        \* an empty opts.Set

OpRec(op, set, del, dry, r) ==
    [op |-> op, set |-> set, del |-> del, dry |-> dry, keep |-> <<>>,
     gps |-> FALSE, all |-> FALSE, err |-> r.err, wrote |-> r.wrote]

StripRec(op, keep, gps, all, dry, r) ==
    [op |-> op, set |-> NoSet, del |-> <<>>, dry |-> dry, keep |-> keep,
     gps |-> gps, all |-> all, err |-> r.err, wrote |-> r.wrote]

NoOp == [op |-> "none", set |-> NoSet, del |-> <<>>, dry |-> FALSE, keep |-> <<>>,
         gps |-> FALSE, all |-> FALSE, err |-> "none", wrote |-> FALSE]

\* the file after a handler call: os.WriteFile replaces it, anything else leaves it
Written(r) == IF r.wrote THEN r.out ELSE file

InitWith(inputs) ==
    /\ file \in inputs
    /\ before = file
    /\ last = NoOp
    /\ fields = <<>>
    /\ nops = 0

(***************************************************************************)
(* MP4 inputs: well-formed files built box by box                          *)
(***************************************************************************)
Box(tag, payload) == PutBE32(8 + Len(payload)) \o tag \o payload

\* an iTunes atom holding a well-formed data sub-atom (type 1 = UTF-8, locale 0)
ItAtom(key, val) == Box(key, Box(Tdata, <<0, 0, 0, 1, 0, 0, 0, 0>> \o val))

KNam     == <<169, 110, 97, 109>>
KART     == <<169, 65, 82, 84>>
KDesc    == <<100, 101, 115, 99>>
ValOld   == <<79, 108, 100>>
ValX     == <<88>>
ValNew   == <<78, 101, 119, 101, 114>>          \* "Newer"
ValY     == <<89>>
KTitle   == <<116, 105, 116, 108, 101>>         \* "title"
KArtist  == <<97, 114, 116, 105, 115, 116>>     \* "artist"
KDescr   == <<100, 101, 115, 99, 114, 105, 112, 116, 105, 111, 110>>  \* "description"
KGenre   == <<103, 101, 110, 114, 101>>         \* "genre"

FtypBox == Box(Tftyp, <<105, 115, 111, 109, 0, 0, 0, 0>>)

\* version 0, timescale 1, duration 75
MvhdBox == Box(Tmvhd, Zeros(12) \o <<0, 0, 0, 1>> \o <<0, 0, 0, 75>>)

UdtaBox(atoms) == Box(Tudta, Box(Tmeta, <<0, 0, 0, 0>> \o Box(Tilst, atoms)))

MP4Ilsts == { ItAtom(KNam, ValOld),
              ItAtom(KNam, ValOld) \o ItAtom(KART, ValX),
              ItAtom(KDesc, ValOld) }

MoovBoxes == {Box(Tmoov, MvhdBox)} \cup {Box(Tmoov, MvhdBox \o UdtaBox(a)) : a \in MP4Ilsts}

\* media payloads; the second holds the bytes 00 00 00 09 'u' 'd' 't' 'a'
MdatBoxes == { Box(Tmdat, <<1, 2, 3>>),
               Box(Tmdat, <<0, 0, 0, 9>> \o Tudta \o <<7, 7, 7>>) }

MP4Inputs == {FtypBox \o m \o d : m \in MoovBoxes, d \in MdatBoxes}
             \cup {FtypBox \o d \o m : m \in MoovBoxes, d \in MdatBoxes}

MP4Sets == { NoSet,
             KTitle :> ValNew,
             (KDescr :> ValY) @@ (KArtist :> ValNew) }

MP4Dels == { <<>>, <<KGenre>>, <<KArtist>> }

EditMP4 ==
    /\ nops < MaxOps
    /\ \E set \in MP4Sets, del \in MP4Dels, dry \in BOOLEAN :
         \E order \in Orders(DOMAIN set) :
            LET r == editMP4(file, set, order, del, dry)
            IN /\ file' = Written(r)
               /\ last' = OpRec("editMP4", set, del, dry, r)
    /\ before' = file
    /\ nops' = nops + 1
    /\ UNCHANGED fields

StripMP4 ==
    /\ nops < MaxOps
    /\ \E dry \in BOOLEAN :
         LET r == stripMP4(file, dry)
         IN /\ file' = Written(r)
            /\ last' = StripRec("stripMP4", <<>>, FALSE, FALSE, dry, r)
    /\ before' = file
    /\ nops' = nops + 1
    /\ UNCHANGED fields

ViewMP4 ==
    /\ nops < MaxOps
    /\ LET v == viewMP4(file)
       IN /\ fields' = v.fields
          /\ last' = OpRec("viewMP4", NoSet, <<>>, FALSE,
                           [err |-> IF v.panic THEN "panic" ELSE "none", wrote |-> FALSE])
    /\ before' = file
    /\ nops' = nops + 1
    /\ UNCHANGED file

InitMP4 == InitWith(MP4Inputs)

NextMP4 == EditMP4 \/ StripMP4 \/ ViewMP4

SpecMP4 == InitMP4 /\ [][NextMP4]_vars


(***************************************************************************)
(* Structure of an ISOBMFF byte string, for stating the MP4 claims          *)
(***************************************************************************)
Containers == {Tmoov, Tudta, Tmeta, Tilst}

SizeAt(data, off) == BE32(Slice(data, off, off + 4))

\* offset of the first child of the box at off (meta carries 4 bytes of version/flags)
ChildrenAt(data, off) == IF Slice(data, off + 4, off + 8) = Tmeta THEN off + 12 ELSE off + 8

\* the boxes laid end to end from lo fill [lo, hi) exactly, each declared length
\* being its header plus its payload, and every container box does so recursively
RECURSIVE Tiles(_, _, _)
Tiles(data, lo, hi) ==
    IF lo = hi THEN TRUE
    ELSE /\ lo + 8 <= hi
         /\ SizeAt(data, lo) >= 8
         /\ lo + SizeAt(data, lo) <= hi
         /\ (Slice(data, lo + 4, lo + 8) \in Containers
                => /\ ChildrenAt(data, lo) <= lo + SizeAt(data, lo)
                   /\ Tiles(data, ChildrenAt(data, lo), lo + SizeAt(data, lo)))
         /\ Tiles(data, lo + SizeAt(data, lo), hi)

WellFormedMP4(data) == Tiles(data, 0, Len(data))

\* offset of the first box of type tag among the siblings in [lo, hi), -1 if none
RECURSIVE FindIn(_, _, _, _)
FindIn(data, lo, hi, tag) ==
    IF lo + 8 > hi \/ lo + 8 > Len(data) THEN -1
    ELSE IF Slice(data, lo + 4, lo + 8) = tag THEN lo
    ELSE IF SizeAt(data, lo) < 8 THEN -1
    ELSE FindIn(data, lo + SizeAt(data, lo), hi, tag)

\* offset of the box reached by descending path (a sequence of types) from the top
RECURSIVE FindPath(_, _, _, _)
FindPath(data, lo, hi, path) ==
    LET off == FindIn(data, lo, hi, Head(path))
    IN IF off < 0 \/ Len(path) = 1 THEN off
       ELSE FindPath(data, ChildrenAt(data, off), off + SizeAt(data, off), Tail(path))

Find(data, path) == FindPath(data, 0, Len(data), path)

PathMoov == <<Tmoov>>
PathUdta == <<Tmoov, Tudta>>
PathMeta == <<Tmoov, Tudta, Tmeta>>
PathIlst == <<Tmoov, Tudta, Tmeta, Tilst>>

\* the children of the ilst box at off: the set of [name, val], val being the bytes
\* after the 16-byte header of the nested sub-atom
RECURSIVE AtomsIn(_, _, _)
AtomsIn(data, lo, hi) ==
    IF lo + 8 > hi \/ lo + 8 > Len(data) \/ SizeAt(data, lo) < 8 THEN {}
    ELSE {[name |-> Slice(data, lo + 4, lo + 8),
           val  |-> Slice(data, lo + 24, min64(lo + SizeAt(data, lo), Len(data)))]}
         \cup AtomsIn(data, lo + SizeAt(data, lo), hi)

IlstAtoms(data, off) == AtomsIn(data, off + 8, off + SizeAt(data, off))

\* the leaf boxes outside udta, in file order, as byte strings
RECURSIVE LeafBoxes(_, _, _)
LeafBoxes(data, lo, hi) ==
    IF lo + 8 > hi THEN <<>>
    ELSE LET size == SizeAt(data, lo)
             typ  == Slice(data, lo + 4, lo + 8)
             here == IF typ = Tudta THEN <<>>
                     ELSE IF typ \in Containers
                          THEN LeafBoxes(data, ChildrenAt(data, lo), lo + size)
                          ELSE <<Slice(data, lo, lo + size)>>
         IN here \o LeafBoxes(data, lo + size, hi)

\* every string of list occurs in data from offset from on, in order, without overlap
RECURSIVE AppearInOrder(_, _, _)
AppearInOrder(data, from, list) ==
    IF list = <<>> THEN TRUE
    ELSE LET at == Index(From(data, from), Head(list))
         IN at >= 0 /\ AppearInOrder(data, from + at + Len(Head(list)), Tail(list))

EditedMP4 == last.op = "editMP4" /\ last.wrote /\ WellFormedMP4(before)

StrippedMP4 == last.op = "stripMP4" /\ last.wrote /\ WellFormedMP4(before)

\* C1: after editMP4 changes the length of the ilst subtree by D bytes, moov, udta
\* and meta each declare D bytes more, every container's declared length is its
\* header plus its children, and the ilst is nested inside moov.
C1_AncestorSizesFollow ==
    EditedMP4 =>
        /\ WellFormedMP4(file)
        /\ Find(file, PathIlst) >= 0
        /\ \A path \in {PathMoov, PathUdta, PathMeta} :
              Find(before, path) >= 0 =>
                 /\ Find(file, path) >= 0
                 /\ SizeAt(file, Find(file, path))
                       = SizeAt(before, Find(before, path)) + Len(file) - Len(before)

\* C2: with an existing ilst, the atoms editMP4 writes are the existing ones minus
\* those named in Delete, with those named in Set overwritten or appended; a Delete
\* of an absent key with an empty Set returns no error and changes no child.
C2_SetDeleteMerge ==
    (last.op = "editMP4" /\ ~last.dry /\ (last.set # NoSet \/ last.del # <<>>)
        /\ WellFormedMP4(before) /\ Find(before, PathIlst) >= 0) =>
        LET old     == IlstAtoms(before, Find(before, PathIlst))
            setKeys == {AtomKeyFor(k) : k \in DOMAIN last.set}
            delKeys == {AtomKeyFor(last.del[i]) : i \in 1..Len(last.del)}
            kept    == {a \in old : a.name \notin setKeys /\ a.name \notin delKeys}
            new     == {[name |-> AtomKeyFor(k), val |-> last.set[k]] : k \in DOMAIN last.set}
        IN /\ last.err = "none"
           /\ last.wrote
           /\ Find(file, PathIlst) >= 0
           /\ IlstAtoms(file, Find(file, PathIlst)) = kept \cup new

\* C3: for every mapped key with a non-empty value V, the atom editMP4 writes holds
\* size, "data", type indicator 1, locale, V, and viewMP4 on the output reports the
\* friendly key with value V.
C3_EditViewRoundTrip ==
    EditedMP4 =>
        \A k \in DOMAIN last.set :
            (ItunesName(AtomKeyFor(k)) # <<>> /\ last.set[k] # <<>>) =>
                /\ Index(file, AtomKeyFor(k) \o PutBE32(16 + Len(last.set[k])) \o Tdata
                                 \o <<0, 0, 0, 1>>) >= 0
                /\ \E i \in 1..Len(viewMP4(file).fields) :
                      /\ viewMP4(file).fields[i].Key = ItunesName(AtomKeyFor(k))
                      /\ viewMP4(file).fields[i].Value = last.set[k]

\* C4: after stripMP4 removes a udta of size S nested in moov, moov declares S
\* bytes less and the boxes still tile the file.
C4_StripShrinksMoov ==
    (StrippedMP4 /\ Find(before, PathUdta) >= 0) =>
        /\ Find(file, PathMoov) >= 0
        /\ SizeAt(file, Find(file, PathMoov))
              = SizeAt(before, Find(before, PathMoov)) - SizeAt(before, Find(before, PathUdta))
        /\ WellFormedMP4(file)

\* C5: stripMP4 leaves every box other than udta byte-identical and in order, also
\* when the bytes "udta" occur inside another box's payload.
C5_StripKeepsOtherBoxes ==
    StrippedMP4 => AppearInOrder(file, 0, LeafBoxes(before, 0, Len(before)))


(***************************************************************************)
(* EXIF blocks  (core/image/image.go)                                      *)
(***************************************************************************)
LE16(b) == b[2] * 256 + b[1]

ExifHeader == <<69, 120, 105, 102, 0, 0>>       \* "Exif\x00\x00"
TiffLE     == <<73, 73, 42, 0>>                 \* "II" 0x2A 0x00

\* exifTagIDs: field name -> tag
exifTagIDs == <<
    [name |-> <<73, 109, 97, 103, 101, 68, 101, 115, 99, 114, 105, 112, 116, 105, 111, 110>>,
     tag |-> 270],                                                      \* ImageDescription 0x010E
    [name |-> <<77, 97, 107, 101>>, tag |-> 271],                       \* Make             0x010F
    [name |-> <<77, 111, 100, 101, 108>>, tag |-> 272],                 \* Model            0x0110
    [name |-> <<83, 111, 102, 116, 119, 97, 114, 101>>, tag |-> 305],   \* Software         0x0131
    [name |-> <<68, 97, 116, 101, 84, 105, 109, 101>>, tag |-> 306],    \* DateTime         0x0132
    [name |-> <<65, 114, 116, 105, 115, 116>>, tag |-> 315],            \* Artist           0x013B
    [name |-> <<67, 111, 112, 121, 114, 105, 103, 104, 116>>, tag |-> 33432],     \* Copyright 0x8298
    [name |-> <<85, 115, 101, 114, 67, 111, 109, 109, 101, 110, 116>>, tag |-> 37510], \* UserComment 0x9286
    [name |-> <<68, 97, 116, 101, 84, 105, 109, 101, 79, 114, 105, 103, 105, 110, 97, 108>>,
     tag |-> 36867],                                                    \* DateTimeOriginal 0x9003
    [name |-> <<68, 97, 116, 101, 84, 105, 109, 101, 68, 105, 103, 105, 116, 105, 122, 101, 100>>,
     tag |-> 36868] >>                                                  \* DateTimeDigitized 0x9004

ExifNames == {exifTagIDs[i].name : i \in 1..Len(exifTagIDs)}

ExifTagOf(name) == exifTagIDs[CHOOSE i \in 1..Len(exifTagIDs) : exifTagIDs[i].name = name].tag

ExifNameOf(tag) == exifTagIDs[CHOOSE i \in 1..Len(exifTagIDs) : exifTagIDs[i].tag = tag].name

\* buildMinimalEXIF's loop over the recognised entries: the IFD entries and the
\* value area written so far
RECURSIVE ExifEntries(_, _, _, _)
ExifEntries(entries, valOffset, ifdBuf, valueBuf) ==
    IF entries = <<>> THEN [ifd |-> ifdBuf, values |-> valueBuf]
    ELSE LET e    == Head(entries)
             val  == e.value \o <<0>>
             head == PutLE16(e.tag) \o PutLE16(2) \o PutLE32(Len(val))
         IN IF Len(val) <= 4
            THEN ExifEntries(Tail(entries), valOffset,
                             ifdBuf \o head \o val \o Zeros(4 - Len(val)), valueBuf)
            ELSE ExifEntries(Tail(entries), valOffset,
                             ifdBuf \o head \o PutLE32(valOffset + Len(valueBuf)),
                             valueBuf \o val)

\* buildMinimalEXIF with the four bytes of the next-IFD offset left out of ifdSize
buildMinimalEXIF_ShortIfdSize(flds, order) ==
    LET known   == SelectSeq(order, LAMBDA k : k \in ExifNames)
        entries == [i \in 1..Len(known) |-> [tag |-> ExifTagOf(known[i]), value |-> flds[known[i]]]]
        ifdSize == 2 + Len(entries) * 12
        built   == ExifEntries(entries, 8 + ifdSize, PutLE16(Len(entries)), <<>>)
    IN IF Len(entries) = 0 THEN [err |-> "error", out |-> <<>>]
       ELSE [err |-> "none",
             out |-> ExifHeader \o TiffLE \o <<8, 0, 0, 0>>
                     \o built.ifd \o PutLE32(0) \o built.values]

\* buildMinimalEXIF(fields); order is the order in which Go ranges over the map
buildMinimalEXIF(flds, order) ==
    LET known   == SelectSeq(order, LAMBDA k : k \in ExifNames)
        entries == [i \in 1..Len(known) |-> [tag |-> ExifTagOf(known[i]), value |-> flds[known[i]]]]
        ifdSize == 2 + Len(entries) * 12 + 4
        built   == ExifEntries(entries, 8 + ifdSize, PutLE16(Len(entries)), <<>>)
    IN IF Len(entries) = 0 THEN [err |-> "error", out |-> <<>>]
       ELSE [err |-> "none",
             out |-> ExifHeader \o TiffLE \o <<8, 0, 0, 0>>
                     \o built.ifd \o PutLE32(0) \o built.values]

\* exif.Decode followed by Walk(exifStringWalker) (the goexif library): the ASCII
\* entries of IFD0 under the names the library gives their tags.  Modelled for
\* little-endian TIFF blocks holding the tags of exifTagIDs, the blocks this
\* program writes; any other byte string fails to decode.
ExifEntryAt(t, off, i) == Slice(t, off + 2 + 12 * (i - 1), off + 2 + 12 * i)

ExifValueOk(t, e) ==
    LE32(Slice(e, 4, 8)) <= 4 \/ LE32(Slice(e, 8, 12)) + LE32(Slice(e, 4, 8)) <= Len(t)

ExifValue(t, e) ==
    LET count == LE32(Slice(e, 4, 8))
        raw   == IF count <= 4 THEN Slice(e, 8, 8 + count)
                 ELSE Slice(t, LE32(Slice(e, 8, 12)), LE32(Slice(e, 8, 12)) + count)
        nul   == IndexByte(raw, 0)
    IN IF nul < 0 THEN raw ELSE Slice(raw, 0, nul)

exifDecode(t) ==
    LET bad == [ok |-> FALSE, fields |-> <<>>]
    IN
    IF Len(t) < 8 \/ Slice(t, 0, 4) # TiffLE THEN bad
    ELSE LET off == LE32(Slice(t, 4, 8))
         IN IF off + 2 > Len(t) THEN bad
            ELSE LET n == LE16(Slice(t, off, off + 2))
                 IN IF off + 2 + 12 * n + 4 > Len(t) THEN bad
                    ELSE IF \E i \in 1..n : ~ExifValueOk(t, ExifEntryAt(t, off, i)) THEN bad
                    ELSE LET isStr(i) == /\ LE16(Slice(ExifEntryAt(t, off, i), 2, 4)) = 2
                                         /\ \E j \in 1..Len(exifTagIDs) :
                                               exifTagIDs[j].tag = LE16(Slice(ExifEntryAt(t, off, i), 0, 2))
                             strs  == {i \in 1..n : isStr(i)}
                             nameAt(i) == ExifNameOf(LE16(Slice(ExifEntryAt(t, off, i), 0, 2)))
                             names == {nameAt(i) : i \in strs}
                         IN [ok |-> TRUE,
                             fields |-> [k \in names |->
                                 ExifValue(t, ExifEntryAt(t, off,
                                     MaxOf({i \in strs : nameAt(i) = k})))]]

\* a Go map after "for k, v := range set { m[k] = v }" and "delete(m, k)" for each
\* k of del
MapMerge(mp, set, del) ==
    LET delSet == {del[i] : i \in 1..Len(del)}
        keys   == (DOMAIN mp \cup DOMAIN set) \ delSet
    IN [k \in keys |-> IF k \in DOMAIN set THEN set[k] ELSE mp[k]]

\* patchEXIFSegment: every result the map's iteration order allows
patchEXIFSegment(data, set, del) ==
    IF Len(data) < 8 THEN {[err |-> "none", out |-> data]}
    ELSE LET x        == exifDecode(From(data, 6))
             existing == MapMerge(IF x.ok THEN x.fields ELSE <<>>, set, del)
         IN {buildMinimalEXIF(existing, order) : order \in Orders(DOMAIN existing)}

stripGPSFromEXIF(data) ==
    IF Len(data) < 6 THEN {[err |-> "none", out |-> data]}
    ELSE LET x == exifDecode(From(data, 6))
         IN IF ~x.ok THEN {[err |-> "error", out |-> data]}
            ELSE {buildMinimalEXIF(x.fields, order) : order \in Orders(DOMAIN x.fields)}


(***************************************************************************)
(* JPEG  (core/image/image.go)                                             *)
(***************************************************************************)
Seg(marker, data) == [marker |-> marker, data |-> data]

\* parseJPEGSegments' loop from offset i
RECURSIVE JPEGLoop(_, _, _)
JPEGLoop(data, i, segs) ==
    IF ~(i < Len(data)) THEN segs
    ELSE IF data[i + 1] # 255 THEN Append(segs, Seg(0, From(data, i)))
    ELSE IF i + 1 >= Len(data) THEN segs
    ELSE LET marker == data[i + 2]
         IN IF marker = 217 THEN Append(segs, Seg(marker, <<>>))
            ELSE IF marker = 216 THEN JPEGLoop(data, i + 2, Append(segs, Seg(marker, <<>>)))
            ELSE IF i + 4 > Len(data) THEN segs
            ELSE LET segLen == BE16(Slice(data, i + 2, i + 4)) - 2
                 IN IF segLen < 0 \/ i + 4 + segLen > Len(data) THEN segs
                    ELSE JPEGLoop(data, i + 4 + segLen,
                                  Append(segs, Seg(marker, Slice(data, i + 4, i + 4 + segLen))))

parseJPEGSegments(data) ==
    IF Len(data) < 2 \/ data[1] # 255 \/ data[2] # 216
    THEN [err |-> "error", segs |-> <<>>]
    ELSE [err |-> "none", segs |-> JPEGLoop(data, 2, <<Seg(216, <<>>)>>)]

\* the buffer writeJPEGSegments builds
RECURSIVE JPEGBytes(_)
JPEGBytes(segs) ==
    IF segs = <<>> THEN <<>>
    ELSE LET seg == Head(segs)
             length == (Len(seg.data) + 2) % 65536
         IN (CASE seg.marker = 216 -> <<255, 216>>
               [] seg.marker = 217 -> <<255, 217>>
               [] seg.marker = 0   -> seg.data
               [] OTHER -> <<255, seg.marker, length \div 256, length % 256>> \o seg.data)
            \o JPEGBytes(Tail(segs))

writeJPEGSegments(segs) == Ok(JPEGBytes(segs))

\* index (1-based) of the first APP1 segment starting "Exif\0\0", 0 when none
ExifSegIdx(segs) ==
    LET hit == {i \in 1..Len(segs) : segs[i].marker = 225 /\ HasPrefix(segs[i].data, ExifHeader)}
    IN IF hit = {} THEN 0 ELSE MinOf(hit)

\* editJPEG: every outcome the map iteration orders allow
editJPEG(data, set, del, dry) ==
    LET p == parseJPEGSegments(data)
        finish(segs) == IF dry THEN NoWrite ELSE writeJPEGSegments(segs)
    IN
    IF p.err # "none" THEN {Fail}
    ELSE IF ExifSegIdx(p.segs) = 0 /\ DOMAIN set # {} THEN
        { LET b == buildMinimalEXIF(set, order)
          IN IF b.err # "none" THEN Fail
             ELSE finish(<<p.segs[1], Seg(225, b.out)>> \o Tail(p.segs))
          : order \in Orders(DOMAIN set) }
    ELSE IF ExifSegIdx(p.segs) > 0 THEN
        { IF b.err # "none" THEN Fail
          ELSE finish([p.segs EXCEPT ![ExifSegIdx(p.segs)].data = b.out])
          : b \in patchEXIFSegment(p.segs[ExifSegIdx(p.segs)].data, set, del) }
    ELSE {finish(p.segs)}

\* jpegMetaMarkers: APP1, APP2, APP12, APP13, APP14, COM
jpegMetaMarkers == {225, 226, 236, 237, 238, 254}

KeepExif == <<101, 120, 105, 102>>    \* "exif"
KeepXmp  == <<120, 109, 112>>         \* "xmp"
KeepIptc == <<105, 112, 116, 99>>     \* "iptc"
NsAdobe  == <<110, 115, 46, 97, 100, 111, 98, 101, 46, 99, 111, 109>>   \* "ns.adobe.com"

\* stripJPEG's loop: every segment list the loop may build
RECURSIVE StripJPEGSegs(_, _, _, _)
StripJPEGSegs(segs, keepSet, gps, all) ==
    IF segs = <<>> THEN {<<>>}
    ELSE LET seg  == Head(segs)
             rest == StripJPEGSegs(Tail(segs), keepSet, gps, all)
             kept == /\ ~all
                     /\ keepSet # {}
                     /\ \/ (KeepExif \in keepSet /\ seg.marker = 225
                               /\ HasPrefix(seg.data, <<69, 120, 105, 102>>))
                        \/ (KeepXmp \in keepSet /\ seg.marker = 225
                               /\ Index(seg.data, NsAdobe) >= 0)
                        \/ (KeepIptc \in keepSet /\ seg.marker = 237)
         IN IF gps /\ seg.marker = 225
            THEN { <<Seg(225, IF g.err = "none" THEN g.out ELSE seg.data)>> \o r :
                      g \in stripGPSFromEXIF(seg.data), r \in rest }
            ELSE IF seg.marker \in jpegMetaMarkers /\ ~kept THEN rest
            ELSE { <<seg>> \o r : r \in rest }

stripJPEG(data, keep, gps, all) ==
    LET p == parseJPEGSegments(data)
        keepSet == {ToLower(keep[i]) : i \in 1..Len(keep)}
    IN IF p.err # "none" THEN {Fail}
       ELSE {writeJPEGSegments(out) : out \in StripJPEGSegs(p.segs, keepSet, gps, all)}


(***************************************************************************)
(* 32-bit words as four bytes, most significant first, for crc32PNG's      *)
(* shifts and exclusive ors                                                *)
(***************************************************************************)
RECURSIVE XorByte(_, _)
XorByte(a, b) ==
    IF a = 0 THEN b
    ELSE IF b = 0 THEN a
    ELSE 2 * XorByte(a \div 2, b \div 2) + ((a + b) % 2)

Xor(a, b) == <<XorByte(a[1], b[1]), XorByte(a[2], b[2]), XorByte(a[3], b[3]), XorByte(a[4], b[4])>>

\* c >> 1
Shr1(c) == << c[1] \div 2,
              (c[1] % 2) * 128 + c[2] \div 2,
              (c[2] % 2) * 128 + c[3] \div 2,
              (c[3] % 2) * 128 + c[4] \div 2 >>

\* c >> 8
Shr8(c) == <<0, c[1], c[2], c[3]>>

\* uint32(b) of a byte b
Word(b) == <<0, 0, 0, b>>

AllOnes == <<255, 255, 255, 255>>

(***************************************************************************)
(* PNG  (core/image/image.go)                                              *)
(***************************************************************************)
PNGSig == <<137, 80, 78, 71, 13, 10, 26, 10>>
TtEXt  == <<116, 69, 88, 116>>
TiTXt  == <<105, 84, 88, 116>>
TeXIf  == <<101, 88, 73, 102>>
TtIME  == <<116, 73, 77, 69>>
TIHDR  == <<73, 72, 68, 82>>
TIDAT  == <<73, 68, 65, 84>>
TIEND  == <<73, 69, 78, 68>>

Chunk(typ, data) == [typ |-> typ, data |-> data]

\* const poly = 0xEDB88320
CrcPoly == <<237, 184, 131, 32>>

\* crc32PNG's inner loop over j: c after `left` more rounds
RECURSIVE CrcRounds(_, _)
CrcRounds(c, left) ==
    IF left = 0 THEN c
    ELSE IF c[4] % 2 = 1 THEN CrcRounds(Xor(CrcPoly, Shr1(c)), left - 1)
    ELSE CrcRounds(Shr1(c), left - 1)

\* "for i := range table": the entries for i = lo .. hi, in order
RECURSIVE CrcEntries(_, _)
CrcEntries(lo, hi) ==
    IF lo = hi THEN <<CrcRounds(Word(lo), 8)>>
    ELSE CrcEntries(lo, (lo + hi) \div 2) \o CrcEntries((lo + hi) \div 2 + 1, hi)

\* table[i] is crcTable[i + 1]
crcTable == CrcEntries(0, 255)

\* crc = table[(crc^uint32(b))&0xFF] ^ (crc >> 8), for the first n bytes of bs
RECURSIVE CrcUpdate(_, _, _)
CrcUpdate(crc, bs, n) ==
    IF n = 0 THEN crc
    ELSE LET c == CrcUpdate(crc, bs, n - 1)
         IN Xor(Shr8(c), crcTable[XorByte(c[4], bs[n]) + 1])

\* a variant of crc32PNG without the final exclusive or
crc32PNG_NoFinalXor(typ, data) == CrcUpdate(CrcUpdate(AllOnes, typ, Len(typ)), data, Len(data))

crc32PNG(typ, data) ==
    Xor(CrcUpdate(CrcUpdate(AllOnes, typ, Len(typ)), data, Len(data)), AllOnes)

writePNGChunk(typ, data) == PutBE32(Len(data)) \o typ \o data \o crc32PNG(typ, data)

RECURSIVE PNGChunkBytes(_)
PNGChunkBytes(chunks) ==
    IF chunks = <<>> THEN <<>>
    ELSE writePNGChunk(Head(chunks).typ, Head(chunks).data) \o PNGChunkBytes(Tail(chunks))

writePNGChunks(chunks) == Ok(PNGSig \o PNGChunkBytes(chunks))

\* readPNGChunks' loop from offset i; the CRC read's result is not looked at
RECURSIVE PNGLoop(_, _, _)
PNGLoop(data, i, chunks) ==
    IF i + 4 > Len(data) THEN chunks
    ELSE IF i + 8 > Len(data) THEN chunks
    ELSE LET length == BE32(Slice(data, i, i + 4))
             typ    == Slice(data, i + 4, i + 8)
         IN IF i + 8 + length > Len(data) THEN chunks
            ELSE LET got == Append(chunks, Chunk(typ, Slice(data, i + 8, i + 8 + length)))
                 IN IF typ = TIEND THEN got
                    ELSE PNGLoop(data, min64(i + 12 + length, Len(data)), got)

readPNGChunks(data) ==
    IF Len(data) < 8 THEN [err |-> "error", chunks |-> <<>>]
    ELSE IF Slice(data, 0, 8) # PNGSig THEN [err |-> "error", chunks |-> <<>>]
    ELSE [err |-> "none", chunks |-> PNGLoop(data, 8, <<>>)]

\* the keyword of a tEXt chunk editPNG may touch: its payload up to the first NUL,
\* when that is not at offset 0; <<>> otherwise
TextKey(c) ==
    IF c.typ = TtEXt /\ IndexByte(c.data, 0) > 0
    THEN Slice(c.data, 0, IndexByte(c.data, 0)) ELSE <<>>

\* a variant of editPNG's first loop that leaves every chunk as it is
PNGUpdate_KeepsOld(chunks, set, delSet) == chunks

\* editPNG's first loop: existing tEXt chunks dropped or updated
RECURSIVE PNGUpdate(_, _, _)
PNGUpdate(chunks, set, delSet) ==
    IF chunks = <<>> THEN <<>>
    ELSE LET c   == Head(chunks)
             key == TextKey(c)
         IN IF key # <<>> /\ key \in delSet THEN PNGUpdate(Tail(chunks), set, delSet)
            ELSE IF key # <<>> /\ key \in DOMAIN set
                 THEN <<Chunk(c.typ, key \o <<0>> \o set[key])>>
                      \o PNGUpdate(Tail(chunks), set, delSet)
                 ELSE <<c>> \o PNGUpdate(Tail(chunks), set, delSet)

\* setDone after that loop
PNGSetDone(chunks, set, delSet) ==
    {TextKey(chunks[i]) : i \in {j \in 1..Len(chunks) :
         TextKey(chunks[j]) # <<>> /\ TextKey(chunks[j]) \notin delSet
         /\ TextKey(chunks[j]) \in DOMAIN set}}

\* "Insert new chunks before IDAT"
PNGInsert(newChunks, addChunks) ==
    LET idat == {i \in 1..Len(newChunks) : newChunks[i].typ = TIDAT}
    IN IF idat = {} THEN newChunks \o addChunks
       ELSE SubSeq(newChunks, 1, MinOf(idat) - 1) \o addChunks
            \o SubSeq(newChunks, MinOf(idat), Len(newChunks))

\* editPNG: every outcome the iteration order over opts.Set allows
editPNG(data, set, del, dry) ==
    LET p      == readPNGChunks(data)
        delSet == {del[i] : i \in 1..Len(del)}
    IN IF p.err # "none" THEN {Fail}
       ELSE LET newChunks == PNGUpdate(p.chunks, set, delSet)
                setDone   == PNGSetDone(p.chunks, set, delSet)
            IN { LET todo      == SelectSeq(order, LAMBDA k : k \notin setDone)
                     addChunks == [i \in 1..Len(todo) |->
                                      Chunk(TtEXt, todo[i] \o <<0>> \o set[todo[i]])]
                 IN IF dry THEN NoWrite
                    ELSE writePNGChunks(PNGInsert(newChunks, addChunks))
                 : order \in Orders(DOMAIN set) }

\* pngMetaChunks: tEXt iTXt zTXt eXIf tIME iCCP sRGB gAMA cHRM bKGD hIST pHYs sBIT sPLT
pngMetaChunks == { TtEXt, TiTXt, <<122, 84, 88, 116>>, TeXIf, TtIME, <<105, 67, 67, 80>>,
                   <<115, 82, 71, 66>>, <<103, 65, 77, 65>>, <<99, 72, 82, 77>>,
                   <<98, 75, 71, 68>>, <<104, 73, 83, 84>>, <<112, 72, 89, 115>>,
                   <<115, 66, 73, 84>>, <<115, 80, 76, 84>> }

KeepAll == <<97, 108, 108>>      \* "all"

stripPNG(data, keep) ==
    LET p       == readPNGChunks(data)
        keepSet == {ToLower(keep[i]) : i \in 1..Len(keep)}
        stays(c) == c.typ \notin pngMetaChunks
                    \/ ToLower(c.typ) \in keepSet \/ KeepAll \in keepSet
    IN IF p.err # "none" THEN Fail
       ELSE writePNGChunks(SelectSeq(p.chunks, stays))

\* fmt.Sprintf("%04d", n)
Dec04(n) == LET d == Dec(n) IN IF Len(d) >= 4 THEN d ELSE [i \in 1..(4 - Len(d)) |-> 48] \o d

CatText == "PNG tEXt"
CatIText == "PNG iTXt"
CatTime == "PNG tIME"
CatExif == "EXIF"

\* "LastModified"
KLastModified == <<76, 97, 115, 116, 77, 111, 100, 105, 102, 105, 101, 100>>

\* viewPNG's iTXt loop: rest after i rounds; <<-1>> stands for the nil slice
RECURSIVE ITextRest(_, _)
ITextRest(rest, i) ==
    IF i >= 2 \/ Len(rest) = 0 THEN rest
    ELSE IF IndexByte(rest, 0) < 0 THEN <<-1>>
    ELSE ITextRest(From(rest, IndexByte(rest, 0) + 1), i + 1)

\* what one chunk adds to m.Fields in viewPNG: every order x.Walk may visit the
\* decoded EXIF fields in, or a panic on the slice c.data[null+3:]
PNGChunkFields(c) ==
    LET null == IndexByte(c.data, 0)
        none == {[fields |-> <<>>, panic |-> FALSE]}
    IN
    IF c.typ = TtEXt THEN
        IF null > 0
        THEN {[fields |-> <<Field(Slice(c.data, 0, null),
                                  IF null + 1 < Len(c.data) THEN From(c.data, null + 1) ELSE <<>>,
                                  CatText, TRUE)>>,
               panic |-> FALSE]}
        ELSE none
    ELSE IF c.typ = TiTXt THEN
        IF null > 0
        THEN IF null + 3 > Len(c.data) THEN {[fields |-> <<>>, panic |-> TRUE]}
             ELSE LET rest == ITextRest(From(c.data, null + 3), 0)
                  IN {[fields |-> <<Field(Slice(c.data, 0, null),
                                          IF rest = <<-1>> THEN <<>> ELSE rest,
                                          CatIText, TRUE)>>,
                       panic |-> FALSE]}
        ELSE none
    ELSE IF c.typ = TeXIf THEN
        LET x == exifDecode(c.data)
        IN IF x.ok
           THEN {[fields |-> [i \in 1..Len(order) |->
                                 Field(order[i], x.fields[order[i]], CatExif, FALSE)],
                  panic |-> FALSE] : order \in Orders(DOMAIN x.fields)}
           ELSE none
    ELSE IF c.typ = TtIME THEN
        IF Len(c.data) = 7
        THEN {[fields |-> <<Field(KLastModified,
                                  Dec04(BE16(Slice(c.data, 0, 2))) \o <<45>> \o Dec02(c.data[3])
                                  \o <<45>> \o Dec02(c.data[4]) \o <<32>> \o Dec02(c.data[5])
                                  \o <<58>> \o Dec02(c.data[6]) \o <<58>> \o Dec02(c.data[7]),
                                  CatTime, FALSE)>>,
               panic |-> FALSE]}
        ELSE none
    ELSE none

\* viewPNG's loop over the chunks
RECURSIVE PNGFields(_)
PNGFields(chunks) ==
    IF chunks = <<>> THEN {[fields |-> <<>>, panic |-> FALSE]}
    ELSE { IF h.panic THEN h ELSE [fields |-> h.fields \o t.fields, panic |-> t.panic]
           : h \in PNGChunkFields(Head(chunks)), t \in PNGFields(Tail(chunks)) }

\* viewPNG: every outcome; m.Fields is empty on entry (Handler.View)
viewPNG(data) ==
    LET p == readPNGChunks(data)
    IN IF p.err # "none" THEN {[err |-> "error", fields |-> <<>>, panic |-> FALSE]}
       ELSE {[err |-> "none", fields |-> v.fields, panic |-> v.panic] : v \in PNGFields(p.chunks)}

(***************************************************************************)
(* PNG files and calls the checks run on                                   *)
(***************************************************************************)
KA    == <<65>>                 \* "A"
KB    == <<66>>                 \* "B"
VOl   == <<111, 108>>           \* "ol"
VN    == <<110>>                \* "n"
VM    == <<109>>                \* "m"
VZz   == <<122, 122>>           \* "zz"

CIHDR == Chunk(TIHDR, <<1>>)
CIDAT == Chunk(TIDAT, <<9>>)
CIEND == Chunk(TIEND, <<>>)
CTextA  == Chunk(TtEXt, KA \o <<0>> \o VOl)
CTextA2 == Chunk(TtEXt, KA \o <<0>> \o VZz)
CITextA == Chunk(TiTXt, KA \o <<0, 0, 0, 0, 0, 116>>)
CTime   == Chunk(TtIME, <<7, 234, 11, 3, 17, 4, 5>>)

PNGOf(chunks) == PNGSig \o PNGChunkBytes(chunks)

PNGOneText    == PNGOf(<<CIHDR, CTextA, CIDAT, CIEND>>)
PNGNoText     == PNGOf(<<CIHDR, CIDAT, CIEND>>)
PNGNoIDAT     == PNGOf(<<CIHDR, CIEND>>)
PNGTwoTexts   == PNGOf(<<CIHDR, CTextA, CTextA2, CIDAT, CIEND>>)
PNGITextTime  == PNGOf(<<CIHDR, CITextA, CTime, CIDAT, CIEND>>)
\* PNGOneText cut inside the payload of its tEXt chunk
PNGTruncated  == SubSeq(PNGOneText, 1, 8 + 13 + 9)
PNGBadSig     == <<137, 80, 78, 71, 13, 10, 26, 11>> \o PNGChunkBytes(<<CIEND>>)

PNGInputs == {PNGOneText, PNGNoText, PNGNoIDAT, PNGTwoTexts, PNGITextTime,
              PNGTruncated, PNGBadSig}

PNGSets == {KA :> VN, KB :> VM, (KA :> VN) @@ (KB :> VM)}

PNGDels == {<<>>, <<KA>>}

\* "tEXt", "all"
PNGKeeps == {<<>>, <<TtEXt>>, <<KeepAll>>}

EditPNG ==
    /\ nops < MaxOps
    /\ \E set \in PNGSets, del \in PNGDels, dry \in BOOLEAN :
         \E r \in editPNG(file, set, del, dry) :
            /\ file' = Written(r)
            /\ last' = OpRec("editPNG", set, del, dry, r)
    /\ before' = file
    /\ nops' = nops + 1
    /\ UNCHANGED fields

StripPNG ==
    /\ nops < MaxOps
    /\ \E keep \in PNGKeeps :
         LET r == stripPNG(file, keep)
         IN /\ file' = Written(r)
            /\ last' = StripRec("stripPNG", keep, FALSE, FALSE, FALSE, r)
    /\ before' = file
    /\ nops' = nops + 1
    /\ UNCHANGED fields

ViewPNG ==
    /\ nops < MaxOps
    /\ \E v \in viewPNG(file) :
          /\ fields' = v.fields
          /\ last' = OpRec("viewPNG", NoSet, <<>>, FALSE,
                           [err |-> IF v.panic THEN "panic" ELSE v.err, wrote |-> FALSE])
    /\ before' = file
    /\ nops' = nops + 1
    /\ UNCHANGED file

InitPNG == InitWith(PNGInputs)

NextPNG == EditPNG \/ StripPNG \/ ViewPNG

SpecPNG == InitPNG /\ [][NextPNG]_vars

(***************************************************************************)
(* PNG properties                                                          *)
(***************************************************************************)
\* the chunks of data from offset i on, each with its stored length and CRC
\* fields, when chunk records tile data exactly up to its end; <<>> from the
\* first offset where they do not
RECURSIVE ChunksFrom(_, _)
ChunksFrom(data, i) ==
    IF i + 12 > Len(data) THEN <<>>
    ELSE LET n == BE32(Slice(data, i, i + 4))
         IN IF i + 12 + n > Len(data) THEN <<>>
            ELSE <<[typ |-> Slice(data, i + 4, i + 8),
                    data |-> Slice(data, i + 8, i + 8 + n),
                    crc |-> Slice(data, i + 8 + n, i + 12 + n)]>>
                 \o ChunksFrom(data, i + 12 + n)

RECURSIVE ChunkSpan(_)
ChunkSpan(cs) == IF cs = <<>> THEN 0 ELSE 12 + Len(Head(cs).data) + ChunkSpan(Tail(cs))

\* the signature followed by whole chunks and nothing else
TiledPNG(data) ==
    /\ HasPrefix(data, PNGSig)
    /\ 8 + ChunkSpan(ChunksFrom(data, 8)) = Len(data)

\* a tiled PNG that starts with IHDR and whose only IEND is its last chunk
WellFormedPNG(data) ==
    /\ TiledPNG(data)
    /\ LET cs == ChunksFrom(data, 8)
       IN /\ Len(cs) >= 2
          /\ cs[1].typ = TIHDR
          /\ \A i \in 1..Len(cs) : (cs[i].typ = TIEND) <=> (i = Len(cs))

TextAt(cs) == {i \in 1..Len(cs) : cs[i].typ = TtEXt}

\* the edit just made was editPNG with Set = {K: V} and nothing to delete, it
\* wrote its output, and the input was a well-formed PNG whose only tEXt chunk
\* has keyword K
C6_Case ==
    /\ last.op = "editPNG" /\ last.err = "none" /\ last.wrote /\ last.del = <<>>
    /\ Cardinality(DOMAIN last.set) = 1
    /\ WellFormedPNG(before)
    /\ LET cs == ChunksFrom(before, 8)
       IN /\ Cardinality(TextAt(cs)) = 1
          /\ \A i \in TextAt(cs) : \E k \in DOMAIN last.set : HasPrefix(cs[i].data, k \o <<0>>)

\* C6: editing the keyword of the only tEXt chunk of a well-formed PNG leaves
\* exactly one tEXt chunk, at the same position, with payload K 0 V; every other
\* chunk keeps its type, payload and place, and the file length changes by
\* len(V) minus the old value's length
C6_EditReplacesInPlace ==
    C6_Case =>
        LET a == ChunksFrom(before, 8)
            b == ChunksFrom(file, 8)
            K == CHOOSE k \in DOMAIN last.set : TRUE
            V == last.set[K]
        IN /\ TiledPNG(file)
           /\ Len(b) = Len(a)
           /\ Cardinality(TextAt(b)) = 1
           /\ \A i \in 1..Len(a) :
                 IF i \in TextAt(a)
                 THEN /\ b[i].typ = TtEXt
                      /\ b[i].data = K \o <<0>> \o V
                      /\ Len(file) - Len(before) = Len(V) - (Len(a[i].data) - Len(K) - 1)
                 ELSE b[i].typ = a[i].typ /\ b[i].data = a[i].data

\* C6 witness: such an edit was made and the value written is shorter than the
\* one it replaced
C6_Witness ==
    /\ C6_Case
    /\ Len(file) < Len(before)
    /\ \E i \in TextAt(ChunksFrom(before, 8)) :
          ChunksFrom(before, 8)[i].data # ChunksFrom(file, 8)[i].data

\* the reflected CRC-32, one bit at a time: the register starts at all ones,
\* takes each byte into its low bits and is shifted right eight times, the
\* polynomial 0xEDB88320 folded in whenever a one is shifted out
RECURSIVE Crc32Shift(_, _)
Crc32Shift(c, left) ==
    IF left = 0 THEN c
    ELSE IF c[4] % 2 = 1 THEN Crc32Shift(Xor(Shr1(c), <<237, 184, 131, 32>>), left - 1)
    ELSE Crc32Shift(Shr1(c), left - 1)

RECURSIVE Crc32Register(_, _)
Crc32Register(bs, n) ==
    IF n = 0 THEN <<255, 255, 255, 255>>
    ELSE LET c == Crc32Register(bs, n - 1)
         IN Crc32Shift(<<c[1], c[2], c[3], XorByte(c[4], bs[n])>>, 8)

\* ... and is complemented at the end
Crc32(bs) == LET c == Crc32Register(bs, Len(bs))
             IN <<255 - c[1], 255 - c[2], 255 - c[3], 255 - c[4]>>

\* C7: after editPNG or stripPNG wrote a file, the file is the signature followed
\* by whole chunks, each with a big-endian length field equal to its payload
\* length and a CRC field equal to the reflected CRC-32 of its type and payload
C7_ChunksSealed ==
    (last.op \in {"editPNG", "stripPNG"} /\ last.wrote) =>
        /\ TiledPNG(file)
        /\ \A i \in 1..Len(ChunksFrom(file, 8)) :
              LET c == ChunksFrom(file, 8)[i]
              IN c.crc = Crc32(c.typ \o c.data)

\* C7 witness: an edit wrote a file in which a tEXt chunk has a payload other
\* than the one at its place before
C7_Witness ==
    /\ last.op = "editPNG" /\ last.wrote
    /\ TiledPNG(before) /\ TiledPNG(file)
    /\ \E i \in TextAt(ChunksFrom(file, 8)) :
          /\ i \in TextAt(ChunksFrom(before, 8))
          /\ ChunksFrom(file, 8)[i].data # ChunksFrom(before, 8)[i].data
          /\ ChunksFrom(file, 8)[i].crc # ChunksFrom(before, 8)[i].crc

\* C8: after editPNG with Set = {K: V} wrote its output, the same edit applied
\* to that output writes the same file again, and viewPNG of it reports exactly
\* one field with key K, with value V
C8_SetIdempotent ==
    (/\ last.op = "editPNG" /\ last.err = "none" /\ last.wrote /\ last.del = <<>>
     /\ Cardinality(DOMAIN last.set) = 1) =>
        LET K == CHOOSE k \in DOMAIN last.set : TRUE
            V == last.set[K]
        IN /\ \A r \in editPNG(file, last.set, <<>>, FALSE) :
                 r.err = "none" /\ r.wrote /\ r.out = file
           /\ \A v \in viewPNG(file) :
                 /\ v.err = "none" /\ ~v.panic
                 /\ Cardinality({i \in 1..Len(v.fields) : v.fields[i].Key = K}) = 1
                 /\ \A i \in 1..Len(v.fields) : v.fields[i].Key = K => v.fields[i].Value = V

(***************************************************************************)
(* JPEG files and calls the checks run on                                  *)
(***************************************************************************)
KMake   == <<77, 97, 107, 101>>          \* "Make"
KArtistTag == <<65, 114, 116, 105, 115, 116>>   \* "Artist"

SOI == <<255, 216>>
EOI == <<255, 217>>
APP0 == <<255, 224, 0, 4, 1, 2>>
COM  == <<255, 254, 0, 3, 67>>
SOS  == <<255, 218, 0, 3, 5>>

\* an APP1 segment holding the EXIF block buildMinimalEXIF makes for Make = "A"
APP1Exif ==
    LET body == buildMinimalEXIF(KMake :> <<65>>, <<KMake>>).out
    IN <<255, 225, (Len(body) + 2) \div 256, (Len(body) + 2) % 256>> \o body

JPEGPlain     == SOI \o APP0 \o COM \o SOS \o <<7, 8>> \o EOI
JPEGWithExif  == SOI \o APP1Exif \o APP0 \o EOI
\* the APP0 segment declares 7 payload bytes, 2 are there
JPEGTruncated == SOI \o <<255, 224, 0, 9, 1, 2>>
JPEGTrailer   == SOI \o APP0 \o EOI \o <<9, 9>>
NotJPEG       == <<1, 2, 3, 4>>

\* the entropy-coded data starts with a stuffed FF 00
JPEGScanFF    == SOI \o COM \o SOS \o <<255, 0, 18, 52, 9>> \o EOI
\* an XMP APP1 segment and an APP13 segment
APP1Xmp == <<255, 225, 0, 15, 120>> \o NsAdobe
APP13   == <<255, 237, 0, 3, 80>>
JPEGRich      == SOI \o APP1Exif \o APP1Xmp \o APP13 \o COM \o SOS \o <<7, 8>> \o EOI

JPEGInputs == {JPEGPlain, JPEGWithExif, JPEGTruncated, JPEGTrailer, NotJPEG, JPEGScanFF, JPEGRich}

\* "Rating", a key exifTagIDs does not hold
KRating == <<82, 97, 116, 105, 110, 103>>

JPEGSets == {NoSet, KMake :> <<66>>, KArtistTag :> <<67>>, KRating :> <<53>>}

JPEGDels == {<<>>, <<KMake>>}

JPEGKeeps == {<<>>, <<KeepExif>>}

EditJPEG ==
    /\ nops < MaxOps
    /\ \E set \in JPEGSets, del \in JPEGDels, dry \in BOOLEAN :
         \E r \in editJPEG(file, set, del, dry) :
            /\ file' = Written(r)
            /\ last' = OpRec("editJPEG", set, del, dry, r)
    /\ before' = file
    /\ nops' = nops + 1
    /\ UNCHANGED fields

StripJPEG ==
    /\ nops < MaxOps
    /\ \E keep \in JPEGKeeps, gps \in BOOLEAN, all \in BOOLEAN :
         \E r \in stripJPEG(file, keep, gps, all) :
            /\ file' = Written(r)
            /\ last' = StripRec("stripJPEG", keep, gps, all, FALSE, r)
    /\ before' = file
    /\ nops' = nops + 1
    /\ UNCHANGED fields

InitJPEG == InitWith(JPEGInputs)

NextJPEG == EditJPEG \/ StripJPEG

SpecJPEG == InitJPEG /\ [][NextJPEG]_vars

\* C9: every buffer editJPEG or stripJPEG read and parseJPEGSegments accepted is
\* reproduced byte for byte by writeJPEGSegments applied to the parsed segments
C9_CodecRoundTrip ==
    (/\ last.op \in {"editJPEG", "stripJPEG"}
     /\ parseJPEGSegments(before).err = "none") =>
        writeJPEGSegments(parseJPEGSegments(before).segs).out = before

\* A JPEG stream read from offset i: marker segments FF m len payload up to the
\* SOS segment, after which everything through the closing EOI is image data.
\* ok says the stream is whole; out is the stream without the segments whose
\* marker is in drop.
RECURSIVE JPEGWithout(_, _, _)
JPEGWithout(d, i, drop) ==
    IF i + 2 > Len(d) \/ d[i + 1] # 255 THEN [ok |-> FALSE, out |-> <<>>]
    ELSE IF d[i + 2] = 217 THEN [ok |-> i + 2 = Len(d), out |-> EOI]
    ELSE IF i + 4 > Len(d) \/ BE16(Slice(d, i + 2, i + 4)) < 2
            \/ i + 2 + BE16(Slice(d, i + 2, i + 4)) > Len(d)
         THEN [ok |-> FALSE, out |-> <<>>]
    ELSE IF d[i + 2] = 218
         THEN [ok |-> Slice(d, Len(d) - 2, Len(d)) = EOI, out |-> From(d, i)]
    ELSE LET n    == 2 + BE16(Slice(d, i + 2, i + 4))
             rest == JPEGWithout(d, i + n, drop)
         IN [ok |-> rest.ok,
             out |-> (IF d[i + 2] \in drop THEN <<>> ELSE Slice(d, i, i + n)) \o rest.out]

WellFormedJPEG(d) == HasPrefix(d, SOI) /\ JPEGWithout(d, 2, {}).ok

\* C12: stripJPEG with StripAll set, on a whole JPEG, writes the input without
\* its APP1, APP2, APP12, APP13, APP14 and COM segments: SOI, every other
\* segment, SOS and the image data through EOI byte for byte and in order
C12_StripAllDropsMetaOnly ==
    (last.op = "stripJPEG" /\ last.all /\ WellFormedJPEG(before)) =>
        /\ last.wrote
        /\ file = SOI \o JPEGWithout(before, 2, {225, 226, 236, 237, 238, 254}).out

\* the pieces of a whole JPEG stream from offset i: each marker segment as its
\* bytes, the SOS segment together with the image data and EOI as the last piece
RECURSIVE JPEGParts(_, _)
JPEGParts(d, i) ==
    IF i + 4 > Len(d) \/ d[i + 1] # 255 \/ d[i + 2] \in {217, 218} THEN <<From(d, i)>>
    ELSE LET n == 2 + BE16(Slice(d, i + 2, i + 4))
         IN <<Slice(d, i, i + n)>> \o JPEGParts(d, i + n)

IsExifPart(part) == HasPrefix(part, <<255, 225>>) /\ HasPrefix(From(part, 4), ExifHeader)

\* the non-GPS tags the EXIF library reads from an APP1 piece
ExifPartFields(part) == exifDecode(From(part, 10)).fields

\* C13: stripJPEG with StripGPS set, StripAll clear and no keep-list, on a whole
\* JPEG, keeps every segment: an EXIF APP1 segment keeps each non-GPS tag with
\* its value, every other segment (XMP APP1, APP13, APP2, COM, image data) is
\* byte-identical
C13_GPSOnlyKeepsTheRest ==
    (/\ last.op = "stripJPEG" /\ last.gps /\ ~last.all /\ last.keep = <<>>
     /\ WellFormedJPEG(before)) =>
        /\ last.wrote
        /\ WellFormedJPEG(file)
        /\ LET was == JPEGParts(before, 2)
               now == JPEGParts(file, 2)
           IN /\ Len(now) = Len(was)
              /\ \A i \in 1..Len(was) :
                    IF IsExifPart(was[i])
                    THEN IsExifPart(now[i]) /\ ExifPartFields(now[i]) = ExifPartFields(was[i])
                    ELSE now[i] = was[i]

(***************************************************************************)
(* FLAC  (the audio handler)                                               *)
(***************************************************************************)
FlacMagic == <<102, 76, 97, 67>>      \* "fLaC"

Block(blockType, data) == [blockType |-> blockType, data |-> data]

\* parseFLACBlocks' loop from offset i: isLast is the top bit of the header,
\* blockType its next 7 bits, length its low 24 bits
RECURSIVE FLACLoop(_, _, _)
FLACLoop(data, i, blocks) ==
    IF i + 4 > Len(data) THEN [err |-> "none", blocks |-> blocks, audioStart |-> i]
    ELSE LET isLast    == data[i + 1] \div 128 = 1
             blockType == data[i + 1] % 128
             length    == BEn(Slice(data, i + 1, i + 4))
         IN IF i + 4 + length > Len(data)
            THEN [err |-> "error", blocks |-> <<>>, audioStart |-> i + 4]
            ELSE LET got == Append(blocks, Block(blockType, Slice(data, i + 4, i + 4 + length)))
                 IN IF isLast THEN [err |-> "none", blocks |-> got, audioStart |-> i + 4 + length]
                    ELSE FLACLoop(data, i + 4 + length, got)

parseFLACBlocks(data) == FLACLoop(data, 4, <<>>)

\* parseVorbisComments' loop: out after reading up to `count` comments from pos
RECURSIVE VorbisLoop(_, _, _, _, _)
VorbisLoop(data, pos, i, count, out) ==
    IF ~(i < count /\ pos + 4 <= Len(data)) THEN out
    ELSE LET cLen == LE32(Slice(data, pos, pos + 4))
         IN IF pos + 4 + cLen > Len(data) THEN out
            ELSE LET comment == Slice(data, pos + 4, pos + 4 + cLen)
                     eq      == IndexByte(comment, 61)
                 IN VorbisLoop(data, pos + 4 + cLen, i + 1, count,
                               IF eq > 0
                               THEN (ToUpper(Slice(comment, 0, eq)) :> From(comment, eq + 1)) @@ out
                               ELSE out)

parseVorbisComments(data, out) ==
    IF Len(data) < 4 THEN out
    ELSE LET pos == 4 + LE32(Slice(data, 0, 4))
         IN IF pos + 4 > Len(data) THEN out
            ELSE VorbisLoop(data, pos + 4, 0, LE32(Slice(data, pos, pos + 4)), out)

\* "Media Metadata Surgery v0.1.2"
VorbisVendor == <<77, 101, 100, 105, 97, 32, 77, 101, 116, 97, 100, 97, 116, 97, 32, 83,
                  117, 114, 103, 101, 114, 121, 32, 118, 48, 46, 49, 46, 50>>

RECURSIVE VorbisEntries(_, _)
VorbisEntries(flds, order) ==
    IF order = <<>> THEN <<>>
    ELSE LET comment == Head(order) \o <<61>> \o flds[Head(order)]
         IN PutLE32(Len(comment)) \o comment \o VorbisEntries(flds, Tail(order))

\* buildVorbisComment, the map visited in the given order
buildVorbisComment(flds, order) ==
    PutLE32(Len(VorbisVendor)) \o VorbisVendor \o PutLE32(Len(order)) \o VorbisEntries(flds, order)

RECURSIVE FLACBlockBytes(_)
FLACBlockBytes(blocks) ==
    IF blocks = <<>> THEN <<>>
    ELSE LET b == Head(blocks)
             n == Len(b.data)
         IN << b.blockType + (IF Len(blocks) = 1 THEN 128 ELSE 0),
               n \div 65536, (n \div 256) % 256, n % 256 >>
            \o b.data \o FLACBlockBytes(Tail(blocks))

writeFLAC(blocks, audioData) == Ok(FlacMagic \o FLACBlockBytes(blocks) \o audioData)

\* index (1-based) of the first VORBIS_COMMENT block, 0 when none
VorbisIdx(blocks) ==
    LET hit == {i \in 1..Len(blocks) : blocks[i].blockType = 4}
    IN IF hit = {} THEN 0 ELSE MinOf(hit)

\* existing after "for k, v := range opts.Set { existing[ToUpper(k)] = v }" and
\* the deletes: one map for every way the range may order keys that differ only
\* in case
FLACMerged(had, set, del) ==
    LET upper == {ToUpper(x) : x \in DOMAIN set}
        picks == {c \in [upper -> DOMAIN set] : \A k \in upper : ToUpper(c[k]) = k}
    IN {MapMerge(had, [k \in upper |-> set[c[k]]], [i \in 1..Len(del) |-> ToUpper(del[i])])
        : c \in picks}

\* editFLAC with the new VORBIS_COMMENT block appended after the last block
\* instead of inserted after block 0
editFLAC_Append(data, set, del, dry) ==
    IF Len(data) < 4 \/ Slice(data, 0, 4) # FlacMagic THEN {Fail}
    ELSE IF dry THEN {NoWrite}
    ELSE LET p == parseFLACBlocks(data)
         IN IF p.err # "none" THEN {Fail}
            ELSE LET vcIdx == VorbisIdx(p.blocks)
                     had   == IF vcIdx > 0 THEN parseVorbisComments(p.blocks[vcIdx].data, NoSet)
                              ELSE NoSet
                 IN IF vcIdx = 0 /\ p.blocks = <<>> THEN {Panic}
                    ELSE UNION { { LET newVC == buildVorbisComment(existing, order)
                                   IN IF vcIdx > 0
                                      THEN writeFLAC([p.blocks EXCEPT ![vcIdx].data = newVC],
                                                     From(data, p.audioStart))
                                      ELSE writeFLAC(Append(p.blocks, Block(4, newVC)),
                                                     From(data, p.audioStart))
                                   : order \in Orders(DOMAIN existing) }
                                 : existing \in FLACMerged(had, set, del) }


\* editFLAC: every outcome the map iteration orders allow
editFLAC(data, set, del, dry) ==
    IF Len(data) < 4 \/ Slice(data, 0, 4) # FlacMagic THEN {Fail}
    ELSE IF dry THEN {NoWrite}
    ELSE LET p == parseFLACBlocks(data)
         IN IF p.err # "none" THEN {Fail}
            ELSE LET vcIdx == VorbisIdx(p.blocks)
                     had   == IF vcIdx > 0 THEN parseVorbisComments(p.blocks[vcIdx].data, NoSet)
                              ELSE NoSet
                 IN IF vcIdx = 0 /\ p.blocks = <<>> THEN {Panic}
                    ELSE UNION { { LET newVC == buildVorbisComment(existing, order)
                                   IN IF vcIdx > 0
                                      THEN writeFLAC([p.blocks EXCEPT ![vcIdx].data = newVC],
                                                     From(data, p.audioStart))
                                      ELSE writeFLAC(<<p.blocks[1], Block(4, newVC)>>
                                                     \o Tail(p.blocks),
                                                     From(data, p.audioStart))
                                   : order \in Orders(DOMAIN existing) }
                                 : existing \in FLACMerged(had, set, del) }

\* stripFLAC's rewrite of one block when KeepFields is not empty
FLACKeepOnly(b, keep) ==
    IF b.blockType # 4 THEN {b}
    ELSE LET had  == parseVorbisComments(b.data, NoSet)
             left == [k \in {x \in DOMAIN had : x \in keep} |-> had[k]]
         IN {Block(4, buildVorbisComment(left, order)) : order \in Orders(DOMAIN left)}

\* every list made of one choice per block
RECURSIVE FLACChoices(_, _)
FLACChoices(blocks, keep) ==
    IF blocks = <<>> THEN {<<>>}
    ELSE {<<b>> \o r : b \in FLACKeepOnly(Head(blocks), keep), r \in FLACChoices(Tail(blocks), keep)}

stripFLAC(data, keep, dry) ==
    IF dry THEN {NoWrite}
    ELSE LET p == parseFLACBlocks(data)
         IN IF p.err # "none" THEN {Fail}
            ELSE IF p.audioStart > Len(data) THEN {Panic}
            ELSE IF Len(keep) > 0
                 THEN {writeFLAC(bs, From(data, p.audioStart)) :
                          bs \in FLACChoices(p.blocks, {ToUpper(keep[i]) : i \in 1..Len(keep)})}
                 ELSE LET cleared == [i \in 1..Len(p.blocks) |->
                                         IF p.blocks[i].blockType = 4
                                         THEN Block(4, buildVorbisComment(NoSet, <<>>))
                                         ELSE p.blocks[i]]
                      IN {writeFLAC(SelectSeq(cleared, LAMBDA b : b.blockType # 6),
                                    From(data, p.audioStart))}

(***************************************************************************)
(* FLAC files and calls the checks run on                                  *)
(***************************************************************************)
KT == <<116>>       \* "t"

\* a Vorbis comment block with vendor "v" and the comment "T=x"
VCData == PutLE32(1) \o <<118>> \o PutLE32(1) \o PutLE32(3) \o <<84, 61, 120>>

FLACWithVC    == FlacMagic \o <<0, 0, 0, 2, 1, 2>> \o <<132, 0, 0, Len(VCData)>> \o VCData \o <<9, 9>>
FLACNoVC      == FlacMagic \o <<0, 0, 0, 2, 1, 2>> \o <<134, 0, 0, 1, 7>> \o <<9, 9>>
\* the STREAMINFO header declares 5 bytes, 2 are there
FLACTruncated == FlacMagic \o <<0, 0, 0, 5, 1, 2>>
NotFLAC       == <<1, 2, 3, 4, 5>>

FLACInputs == {FLACWithVC, FLACNoVC, FLACTruncated, NotFLAC}

FLACSets == {NoSet, KT :> <<121>>}

FLACDels == {<<>>, <<KT>>}

FLACKeeps == {<<>>, <<KT>>}

EditFLAC ==
    /\ nops < MaxOps
    /\ \E set \in FLACSets, del \in FLACDels, dry \in BOOLEAN :
         \E r \in editFLAC(file, set, del, dry) :
            /\ file' = Written(r)
            /\ last' = OpRec("editFLAC", set, del, dry, r)
    /\ before' = file
    /\ nops' = nops + 1
    /\ UNCHANGED fields

StripFLAC ==
    /\ nops < MaxOps
    /\ \E keep \in FLACKeeps, dry \in BOOLEAN :
         \E r \in stripFLAC(file, keep, dry) :
            /\ file' = Written(r)
            /\ last' = StripRec("stripFLAC", keep, FALSE, FALSE, dry, r)
    /\ before' = file
    /\ nops' = nops + 1
    /\ UNCHANGED fields

(***************************************************************************)
(* Edit and Strip over JPEG, PNG and FLAC files                            *)
(***************************************************************************)
FilesInputs == {JPEGPlain, JPEGTruncated, PNGOneText, PNGTruncated} \cup FLACInputs

InitFiles == InitWith(FilesInputs)

NextFiles == EditJPEG \/ StripJPEG \/ EditPNG \/ StripPNG \/ EditFLAC \/ StripFLAC

SpecFiles == InitFiles /\ [][NextFiles]_vars

\* a JPEG in which a segment header declares more bytes than are left
RECURSIVE JPEGCutFrom(_, _)
JPEGCutFrom(d, i) ==
    IF i + 4 > Len(d) \/ d[i + 1] # 255 \/ d[i + 2] = 217 THEN FALSE
    ELSE IF d[i + 2] = 216 THEN JPEGCutFrom(d, i + 2)
    ELSE LET n == d[i + 3] * 256 + d[i + 4]
         IN IF n < 2 THEN FALSE
            ELSE IF i + 2 + n > Len(d) THEN TRUE
            ELSE JPEGCutFrom(d, i + 2 + n)

TruncatedJPEG(d) == HasPrefix(d, <<255, 216>>) /\ JPEGCutFrom(d, 2)

\* a PNG in which a chunk header declares more payload bytes than are left
RECURSIVE PNGCutFrom(_, _)
PNGCutFrom(d, i) ==
    IF i + 8 > Len(d) THEN FALSE
    ELSE LET n == BE32(Slice(d, i, i + 4))
         IN IF i + 8 + n > Len(d) THEN TRUE
            ELSE IF Slice(d, i + 4, i + 8) = TIEND \/ i + 12 + n > Len(d) THEN FALSE
            ELSE PNGCutFrom(d, i + 12 + n)

TruncatedPNG(d) == HasPrefix(d, PNGSig) /\ PNGCutFrom(d, 8)

\* a FLAC stream in which a metadata block header declares more bytes than are left
RECURSIVE FLACCutFrom(_, _)
FLACCutFrom(d, i) ==
    IF i + 4 > Len(d) THEN FALSE
    ELSE LET n == (d[i + 2] * 256 + d[i + 3]) * 256 + d[i + 4]
         IN IF i + 4 + n > Len(d) THEN TRUE
            ELSE IF d[i + 1] >= 128 THEN FALSE
            ELSE FLACCutFrom(d, i + 4 + n)

TruncatedFLAC(d) == HasPrefix(d, FlacMagic) /\ FLACCutFrom(d, 4)

\* C10: an edit or strip (not a dry run) of a JPEG, PNG or FLAC file in which a
\* segment, chunk or metadata block declares a length running past the end of
\* the file returns an error and leaves the file as it was
C10_TruncationIsFatal ==
    (/\ ~last.dry
     /\ \/ last.op \in {"editJPEG", "stripJPEG"} /\ TruncatedJPEG(before)
        \/ last.op \in {"editPNG", "stripPNG"} /\ TruncatedPNG(before)
        \/ last.op \in {"editFLAC", "stripFLAC"} /\ TruncatedFLAC(before)) =>
        /\ last.err = "error"
        /\ ~last.wrote
        /\ file = before

(***************************************************************************)
(* WAV  (the audio handler)                                                *)
(***************************************************************************)
TRIFF  == <<82, 73, 70, 70>>       \* "RIFF"
TWAVE  == <<87, 65, 86, 69>>       \* "WAVE"
TLIST  == <<76, 73, 83, 84>>       \* "LIST"
Tid3   == <<105, 100, 51, 32>>     \* "id3 "
TID3   == <<73, 68, 51, 32>>       \* "ID3 "

\* stripWAV's loop from offset: the bytes written to body
RECURSIVE WAVBody(_, _)
WAVBody(data, offset) ==
    IF offset + 8 > Len(data) THEN <<>>
    ELSE IF data[offset + 8] >= 128 THEN <<>>      \* a size of 2^31 and more
    ELSE LET chunkID   == Slice(data, offset, offset + 4)
             chunkSize == LE32(Slice(data, offset + 4, offset + 8))
         IN IF offset + 8 + chunkSize > Len(data) THEN <<>>
            ELSE (IF chunkID \in {TLIST, Tid3, TID3} THEN <<>>
                  ELSE Slice(data, offset, offset + 8 + chunkSize))
                 \o WAVBody(data, offset + 8 + chunkSize + (chunkSize % 2))

\* stripWAV; opts is not read
stripWAV(data) ==
    IF Len(data) < 12 THEN Fail
    ELSE LET body == WAVBody(data, 12)
         IN Ok(TRIFF \o PutLE32(Len(body) + 4) \o TWAVE \o body)

(***************************************************************************)
(* WAV files and calls the checks run on                                   *)
(***************************************************************************)
\* a chunk as it lies in a file: header, payload and the pad byte after an odd
\* payload
WAVChunk(id, payload) ==
    id \o PutLE32(Len(payload)) \o payload \o (IF Len(payload) % 2 = 1 THEN <<0>> ELSE <<>>)

WFmt  == WAVChunk(<<102, 109, 116, 32>>, <<1, 2>>)      \* "fmt "
WFact == WAVChunk(<<102, 97, 99, 116>>, <<5>>)          \* "fact", odd payload
WList == WAVChunk(TLIST, <<73, 78, 70, 79>>)            \* "LIST" "INFO"
WId3  == WAVChunk(Tid3, <<7>>)
WData == WAVChunk(<<100, 97, 116, 97>>, <<8, 9>>)       \* "data"

WAVParts == {WFmt, WFact, WList, WId3, WData}

WAVOf(body) == TRIFF \o PutLE32(Len(body) + 4) \o TWAVE \o body

\* the "fmt " chunk declares 6 bytes, 2 are there
WAVTruncated == WAVOf(<<102, 109, 116, 32, 6, 0, 0, 0, 1, 2>>)
WAVShort     == TRIFF \o <<0, 0, 0, 0>>
\* twelve bytes and more that are no RIFF/WAVE header
NotWAV       == <<1, 2, 3, 4, 5, 6, 7, 8, 9, 10, 11, 12>> \o WData

WAVInputs == {WAVOf(a) : a \in WAVParts} \cup {WAVOf(a \o b) : a \in WAVParts, b \in WAVParts}
             \cup {WAVTruncated, WAVShort, NotWAV}

\* the options runStrip builds from --keep and --gps-only
StripOpts == { o \in [keep : {<<>>, <<KeepExif>>}, gps : BOOLEAN, all : BOOLEAN] :
                  o.all = (o.keep = <<>> /\ ~o.gps) }

StripWAV ==
    /\ nops < MaxOps
    /\ \E o \in StripOpts :
         LET r == stripWAV(file)
         IN /\ file' = Written(r)
            /\ last' = StripRec("stripWAV", o.keep, o.gps, o.all, FALSE, r)
    /\ before' = file
    /\ nops' = nops + 1
    /\ UNCHANGED fields

InitWAV == InitWith(WAVInputs)

NextWAV == StripWAV

SpecWAV == InitWAV /\ [][NextWAV]_vars

\* the chunks a walker finds in d from offset off: it reads an 8-byte header,
\* takes the payload and steps over the pad byte after an odd payload
RECURSIVE RIFFChunks(_, _)
RIFFChunks(d, off) ==
    IF off + 8 > Len(d) THEN <<>>
    ELSE LET n == LE32(Slice(d, off + 4, off + 8))
         IN IF off + 8 + n > Len(d) THEN <<>>
            ELSE <<[id |-> Slice(d, off, off + 4), size |-> n,
                    data |-> Slice(d, off + 8, off + 8 + n)]>>
                 \o RIFFChunks(d, off + 8 + n + (n % 2))

RECURSIVE RIFFSpan(_)
RIFFSpan(cs) ==
    IF cs = <<>> THEN 0
    ELSE 8 + Head(cs).size + (Head(cs).size % 2) + RIFFSpan(Tail(cs))

\* "RIFF", the length of what follows, "WAVE", then whole chunks, each odd
\* payload followed by its pad byte, up to the end of the file
WellFormedWAV(d) ==
    /\ Len(d) >= 12
    /\ Slice(d, 0, 4) = TRIFF /\ Slice(d, 8, 12) = TWAVE
    /\ LE32(Slice(d, 4, 8)) = Len(d) - 8
    /\ 12 + RIFFSpan(RIFFChunks(d, 12)) = Len(d)

\* C11: stripWAV of a well-formed WAV writes a well-formed WAV whose chunks are
\* the input's chunks other than LIST, "id3 " and "ID3 ", in the same order with
\* the same id, length and payload
C11_StripKeepsChunks ==
    (last.op = "stripWAV" /\ last.wrote /\ WellFormedWAV(before)) =>
        /\ WellFormedWAV(file)
        /\ RIFFChunks(file, 12)
             = SelectSeq(RIFFChunks(before, 12), LAMBDA c : c.id \notin {TLIST, Tid3, TID3})

(***************************************************************************)
(* PDF  (core/document/document.go)                                        *)
(***************************************************************************)
\* the regular expression class \s
ReSpace(b) == b \in {9, 10, 12, 13, 32}

RECURSIVE SkipReSpace(_, _)
SkipReSpace(s, i) == IF i < Len(s) /\ ReSpace(s[i + 1]) THEN SkipReSpace(s, i + 1) ELSE i

IndexByteFrom(s, b, i) ==
    LET k == IndexByte(From(s, i), b) IN IF k < 0 THEN -1 ELSE i + k

\* regexp ReplaceAll: ends[p] is the end of the match that starts at offset p, or
\* -1; matches are taken leftmost and do not overlap (replacements hold no "$")
RECURSIVE ReplaceAll(_, _, _, _)
ReplaceAll(data, i, ends, repl) ==
    LET starts == {p \in DOMAIN ends : p >= i /\ ends[p] >= 0}
    IN IF starts = {} THEN From(data, i)
       ELSE Slice(data, i, MinOf(starts)) \o repl
            \o ReplaceAll(data, ends[MinOf(starts)], ends, repl)

ReMatch(ends) == \E p \in DOMAIN ends : ends[p] >= 0

\* `/` + k + `\s*\([^)]*\)` at offset p: the end of the match or -1
PDFEntryEnd(data, p, k) ==
    IF ~HasPrefix(From(data, p), <<47>> \o k) THEN -1
    ELSE LET b == SkipReSpace(data, p + 1 + Len(k))
         IN IF b >= Len(data) \/ data[b + 1] # 40 THEN -1
            ELSE LET c == IndexByteFrom(data, 41, b + 1)
                 IN IF c < 0 THEN -1 ELSE c + 1

PDFEntryEnds(data, k) == [p \in 0..(Len(data) - 1) |-> PDFEntryEnd(data, p, k)]

\* the same followed by `\s*\n?`
PDFEntryLineEnds(data, k) ==
    [p \in 0..(Len(data) - 1) |->
        IF PDFEntryEnd(data, p, k) < 0 THEN -1 ELSE SkipReSpace(data, PDFEntryEnd(data, p, k))]

PDFDictOpen == <<60, 60, 32, 47>>

\* editPDF's loop over opts.Set in the order Go ranges over the map
RECURSIVE PDFSetAll(_, _, _)
PDFSetAll(data, set, order) ==
    IF order = <<>> THEN data
    ELSE LET k == Head(order)
             v == set[k]
             newEntry == <<47>> \o k \o <<32, 40>> \o v \o <<41>>
             infoIdx  == Index(data, PDFDictOpen)
             next ==
                IF ReMatch(PDFEntryEnds(data, k))
                THEN ReplaceAll(data, 0, PDFEntryEnds(data, k), newEntry)
                ELSE IF infoIdx >= 0
                THEN Slice(data, 0, infoIdx + 3) \o <<10, 47>> \o k \o <<32, 40>> \o v \o <<41>>
                     \o From(data, infoIdx + 3)
                ELSE data
         IN PDFSetAll(next, set, Tail(order))

RECURSIVE PDFDeleteAll(_, _)
PDFDeleteAll(data, del) ==
    IF del = <<>> THEN data
    ELSE PDFDeleteAll(ReplaceAll(data, 0, PDFEntryLineEnds(data, Head(del)), <<>>), Tail(del))

\* editPDF: every outcome the map iteration orders allow
editPDF(data, set, del, dry) ==
    IF dry THEN {NoWrite}
    ELSE {Ok(PDFDeleteAll(PDFSetAll(data, set, order), del)) : order \in Orders(DOMAIN set)}


(***************************************************************************)
(* OPC packages: DOCX, XLSX, PPTX  (core/document/document.go)             *)
(***************************************************************************)
\* archive/zip is not part of the repository.  An archive is taken as its list
\* of members, laid out as one record per member (PK 03 04, the name behind a
\* length byte, the content behind a two-byte length) closed by the end record
\* PK 05 06.
ZipLocal == <<80, 75, 3, 4>>
ZipEnd   == <<80, 75, 5, 6>>

RECURSIVE ZipBytes(_)
ZipBytes(entries) ==
    IF entries = <<>> THEN ZipEnd
    ELSE ZipLocal \o <<Len(Head(entries).name)>> \o Head(entries).name
         \o PutLE16(Len(Head(entries).content)) \o Head(entries).content
         \o ZipBytes(Tail(entries))

RECURSIVE ZipRead(_, _, _)
ZipRead(data, i, entries) ==
    IF i <= Len(data) /\ From(data, i) = ZipEnd THEN [ok |-> TRUE, File |-> entries]
    ELSE IF i + 5 > Len(data) \/ ~HasPrefix(From(data, i), ZipLocal)
            \/ i + 5 + data[i + 5] + 2 > Len(data)
         THEN [ok |-> FALSE, File |-> <<>>]
    ELSE LET n == data[i + 5]
             c == LE16(Slice(data, i + 5 + n, i + 7 + n))
         IN IF i + 7 + n + c > Len(data) THEN [ok |-> FALSE, File |-> <<>>]
            ELSE ZipRead(data, i + 7 + n + c,
                         Append(entries, [name |-> Slice(data, i + 5, i + 5 + n),
                                          content |-> Slice(data, i + 7 + n, i + 7 + n + c)]))

CoreXMLName == <<100, 111, 99, 80, 114, 111, 112, 115, 47, 99, 111, 114, 101, 46, 120, 109, 108>>

\* patchCoreXML's xmlNames
xmlNames == <<
    [key |-> <<84, 105, 116, 108, 101>>,          tag |-> <<100, 99, 58, 116, 105, 116, 108, 101>>],
    [key |-> <<83, 117, 98, 106, 101, 99, 116>>,        tag |-> <<100, 99, 58, 115, 117, 98, 106, 101, 99, 116>>],
    [key |-> <<65, 117, 116, 104, 111, 114>>,         tag |-> <<100, 99, 58, 99, 114, 101, 97, 116, 111, 114>>],
    [key |-> <<75, 101, 121, 119, 111, 114, 100, 115>>,       tag |-> <<99, 112, 58, 107, 101, 121, 119, 111, 114, 100, 115>>],
    [key |-> <<68, 101, 115, 99, 114, 105, 112, 116, 105, 111, 110>>,    tag |-> <<100, 99, 58, 100, 101, 115, 99, 114, 105, 112, 116, 105, 111, 110>>],
    [key |-> <<76, 97, 115, 116, 77, 111, 100, 105, 102, 105, 101, 100, 66, 121>>, tag |-> <<99, 112, 58, 108, 97, 115, 116, 77, 111, 100, 105, 102, 105, 101, 100, 66, 121>>],
    [key |-> <<67, 97, 116, 101, 103, 111, 114, 121>>,       tag |-> <<99, 112, 58, 99, 97, 116, 101, 103, 111, 114, 121>>],
    [key |-> <<67, 111, 110, 116, 101, 110, 116, 83, 116, 97, 116, 117, 115>>,  tag |-> <<99, 112, 58, 99, 111, 110, 116, 101, 110, 116, 83, 116, 97, 116, 117, 115>>] >>

XmlTagOf(k) ==
    IF \E i \in 1..Len(xmlNames) : xmlNames[i].key = k
    THEN xmlNames[CHOOSE i \in 1..Len(xmlNames) : xmlNames[i].key = k].tag
    ELSE k

\* xml.EscapeText on ASCII text
RECURSIVE xmlEscape(_)
xmlEscape(s) ==
    IF s = <<>> THEN <<>>
    ELSE (CASE Head(s) = 34 -> <<38, 35, 51, 52, 59>>
            [] Head(s) = 39 -> <<38, 35, 51, 57, 59>>
            [] Head(s) = 38 -> <<38, 97, 109, 112, 59>>
            [] Head(s) = 60 -> <<38, 108, 116, 59>>
            [] Head(s) = 62 -> <<38, 103, 116, 59>>
            [] Head(s) = 9  -> <<38, 35, 120, 57, 59>>
            [] Head(s) = 10 -> <<38, 35, 120, 65, 59>>
            [] Head(s) = 13 -> <<38, 35, 120, 68, 59>>
            [] OTHER -> <<Head(s)>>) \o xmlEscape(Tail(s))

\* `<` + tag + `[^>]*>[^<]*</` + tag + `>` at offset p: the end of the match or -1
XMLElemEnd(data, p, tag) ==
    IF p >= Len(data) \/ ~HasPrefix(From(data, p), <<60>> \o tag) THEN -1
    ELSE LET q == IndexByteFrom(data, 62, p + 1 + Len(tag))
         IN IF q < 0 THEN -1
            ELSE LET r == IndexByteFrom(data, 60, q + 1)
                 IN IF r >= 0 /\ HasPrefix(From(data, r), <<60, 47>> \o tag \o <<62>>)
                    THEN r + 3 + Len(tag) ELSE -1

XMLElemEnds(data, tag) == [p \in 0..(Len(data) - 1) |-> XMLElemEnd(data, p, tag)]

\* the same behind `\s*`
XMLSpacedElemEnds(data, tag) ==
    [p \in 0..(Len(data) - 1) |-> XMLElemEnd(data, SkipReSpace(data, p), tag)]

CorePropsClose == <<60, 47, 99, 112, 58, 99, 111, 114, 101, 80, 114, 111, 112, 101, 114, 116, 105, 101, 115, 62>>

LiteralEnds(data, lit) ==
    [p \in 0..(Len(data) - 1) |-> IF HasPrefix(From(data, p), lit) THEN p + Len(lit) ELSE -1]

RECURSIVE CoreXMLSetAll(_, _, _)
CoreXMLSetAll(data, set, order) ==
    IF order = <<>> THEN data
    ELSE LET xmlTag == XmlTagOf(Head(order))
             newEl  == <<60>> \o xmlTag \o <<62>> \o xmlEscape(set[Head(order)])
                       \o <<60, 47>> \o xmlTag \o <<62>>
             next ==
                IF ReMatch(XMLElemEnds(data, xmlTag))
                THEN ReplaceAll(data, 0, XMLElemEnds(data, xmlTag), newEl)
                ELSE ReplaceAll(data, 0, LiteralEnds(data, CorePropsClose),
                                <<10, 32, 32>> \o newEl \o <<10>> \o CorePropsClose)
         IN CoreXMLSetAll(next, set, Tail(order))

RECURSIVE CoreXMLDeleteAll(_, _)
CoreXMLDeleteAll(data, del) ==
    IF del = <<>> THEN data
    ELSE CoreXMLDeleteAll(
             ReplaceAll(data, 0, XMLSpacedElemEnds(data, XmlTagOf(Head(del))), <<>>), Tail(del))

\* patchCoreXML; order is the order in which Go ranges over set
patchCoreXML(data, set, order, del) == CoreXMLDeleteAll(CoreXMLSetAll(data, set, order), del)

\* editOPC.  inplace says that outPath is the input path: os.Create then empties
\* the archive the reader still has open, the first member cannot be read, and
\* the deferred Close of the writer leaves an archive without members.
editOPC(data, set, del, dry, inplace) ==
    LET r == ZipRead(data, 0, <<>>)
    IN IF dry THEN {NoWrite}
       ELSE IF ~r.ok THEN {Fail}
       ELSE IF inplace
       THEN {[err |-> IF r.File = <<>> THEN "none" ELSE "error",
              wrote |-> TRUE, out |-> ZipBytes(<<>>)]}
       ELSE {Ok(ZipBytes([i \in 1..Len(r.File) |->
                    IF r.File[i].name = CoreXMLName
                    THEN [r.File[i] EXCEPT !.content = patchCoreXML(@, set, order, del)]
                    ELSE r.File[i]]))
             : order \in Orders(DOMAIN set)}


(***************************************************************************)
(* MP3  (the audio handler)                                                *)
(***************************************************************************)
\* The id3v2 library is not part of the repository.  What editMP3 relies on:
\* Open reads an ID3v2.3/2.4 tag at the start of the file if there is one (a
\* file without "ID3" has no tag), frames are held one per frame ID, and Save
\* rewrites the file as the tag followed by the audio, with no tag when no frame
\* is left.
ID3Magic == <<73, 68, 51>>     \* "ID3"

Syncsafe(n) == <<(n \div 2097152) % 128, (n \div 16384) % 128, (n \div 128) % 128, n % 128>>

UnSyncsafe(b) == ((b[1] * 128 + b[2]) * 128 + b[3]) * 128 + b[4]

ID3Size(version, b) == IF version = 4 THEN UnSyncsafe(b) ELSE BE32(b)

\* the frames of a tag body from offset i, as a function frame ID -> frame body
RECURSIVE ID3Frames(_, _, _, _)
ID3Frames(body, i, version, frames) ==
    IF i + 10 > Len(body) \/ body[i + 1] = 0 THEN frames
    ELSE LET n == ID3Size(version, Slice(body, i + 4, i + 8))
         IN IF i + 10 + n > Len(body) THEN frames
            ELSE ID3Frames(body, i + 10 + n, version,
                           (Slice(body, i, i + 4) :> Slice(body, i + 10, i + 10 + n)) @@ frames)

\* id3v2.Open with Parse: true
ID3Open(data) ==
    IF ~HasPrefix(data, ID3Magic) \/ Len(data) < 10
    THEN [err |-> "none", version |-> 4, frames |-> <<>>, music |-> data]
    ELSE IF data[4] \notin {3, 4} \/ \E i \in 7..10 : data[i] >= 128
              \/ 10 + UnSyncsafe(Slice(data, 6, 10)) > Len(data)
    THEN [err |-> "error", version |-> 4, frames |-> <<>>, music |-> <<>>]
    ELSE LET n == UnSyncsafe(Slice(data, 6, 10))
         IN [err |-> "none", version |-> data[4],
             frames |-> ID3Frames(Slice(data, 10, 10 + n), 0, data[4], <<>>),
             music |-> From(data, 10 + n)]

RECURSIVE ID3FrameBytes(_, _, _)
ID3FrameBytes(frames, order, version) ==
    IF order = <<>> THEN <<>>
    ELSE LET body == frames[Head(order)]
         IN Head(order) \o (IF version = 4 THEN Syncsafe(Len(body)) ELSE PutBE32(Len(body)))
            \o <<0, 0>> \o body \o ID3FrameBytes(frames, Tail(order), version)

\* Tag.Save; order is the order in which the library ranges over its frames
ID3Save(t, frames, order) ==
    IF DOMAIN frames = {} THEN t.music
    ELSE LET fb == ID3FrameBytes(frames, order, t.version)
         IN ID3Magic \o <<t.version, 0, 0>> \o Syncsafe(Len(fb)) \o fb \o t.music

\* mp3FrameID
mp3FrameIDs == <<
    [name |-> <<116, 105, 116, 108, 101>>,       id |-> <<84, 73, 84, 50>>],
    [name |-> <<97, 114, 116, 105, 115, 116>>,      id |-> <<84, 80, 69, 49>>],
    [name |-> <<97, 108, 98, 117, 109>>,       id |-> <<84, 65, 76, 66>>],
    [name |-> <<121, 101, 97, 114>>,        id |-> <<84, 68, 82, 67>>],
    [name |-> <<103, 101, 110, 114, 101>>,       id |-> <<84, 67, 79, 78>>],
    [name |-> <<99, 111, 109, 109, 101, 110, 116>>,     id |-> <<67, 79, 77, 77>>],
    [name |-> <<116, 114, 97, 99, 107, 110, 117, 109, 98, 101, 114>>, id |-> <<84, 82, 67, 75>>],
    [name |-> <<97, 108, 98, 117, 109, 97, 114, 116, 105, 115, 116>>, id |-> <<84, 80, 69, 50>>],
    [name |-> <<99, 111, 109, 112, 111, 115, 101, 114>>,    id |-> <<84, 67, 79, 77>>],
    [name |-> <<108, 121, 114, 105, 99, 115>>,      id |-> <<85, 83, 76, 84>>],
    [name |-> <<99, 111, 112, 121, 114, 105, 103, 104, 116>>,   id |-> <<84, 67, 79, 80>>] >>

mp3FrameID(name) ==
    IF \E i \in 1..Len(mp3FrameIDs) : mp3FrameIDs[i].name = ToLower(name)
    THEN mp3FrameIDs[CHOOSE i \in 1..Len(mp3FrameIDs) : mp3FrameIDs[i].name = ToLower(name)].id
    ELSE <<>>

RECURSIVE MP3DeleteAll(_, _)
MP3DeleteAll(frames, del) ==
    IF del = <<>> THEN frames
    ELSE LET fid == mp3FrameID(Head(del))
         IN MP3DeleteAll([f \in DOMAIN frames \ {fid} |-> frames[f]], Tail(del))

\* the frame one case of editMP3's switch adds for key k and value v: its ID and
\* body, or an empty ID when the key is skipped.  3 is the UTF-8 encoding byte;
\* the setters of the library use the tag's default encoding, UTF-8 for a 2.4 tag
\* and ISO-8859-1 (0) for a 2.3 tag.
MP3Frame(k, v, version) ==
    LET lk   == ToLower(k)
        dflt == IF version = 4 THEN 3 ELSE 0
        eng  == <<101, 110, 103>>
    IN CASE lk = <<116, 105, 116, 108, 101>>  -> [id |-> <<84, 73, 84, 50>>, body |-> <<dflt>> \o v]
         [] lk = <<97, 114, 116, 105, 115, 116>> -> [id |-> <<84, 80, 69, 49>>, body |-> <<dflt>> \o v]
         [] lk = <<97, 108, 98, 117, 109>>  -> [id |-> <<84, 65, 76, 66>>, body |-> <<dflt>> \o v]
         [] lk = <<121, 101, 97, 114>>   -> [id |-> IF version = 4 THEN <<84, 68, 82, 67>> ELSE <<84, 89, 69, 82>>,
                                  body |-> <<dflt>> \o v]
         [] lk = <<103, 101, 110, 114, 101>>  -> [id |-> <<84, 67, 79, 78>>, body |-> <<dflt>> \o v]
         [] lk = <<99, 111, 109, 109, 101, 110, 116>> -> [id |-> <<67, 79, 77, 77>>, body |-> <<3>> \o eng \o <<0>> \o v]
         [] lk = <<116, 114, 97, 99, 107, 110, 117, 109, 98, 101, 114>> -> [id |-> <<84, 82, 67, 75>>, body |-> <<3>> \o v]
         [] lk = <<97, 108, 98, 117, 109, 97, 114, 116, 105, 115, 116>> -> [id |-> <<84, 80, 69, 50>>, body |-> <<3>> \o v]
         [] lk = <<99, 111, 109, 112, 111, 115, 101, 114>>    -> [id |-> <<84, 67, 79, 77>>, body |-> <<3>> \o v]
         [] lk = <<108, 121, 114, 105, 99, 115>>  -> [id |-> <<85, 83, 76, 84>>, body |-> <<3>> \o eng \o <<0>> \o v]
         [] lk = <<99, 111, 112, 121, 114, 105, 103, 104, 116>>   -> [id |-> <<84, 67, 79, 80>>, body |-> <<3>> \o v]
         [] OTHER -> IF Len(k) = 4 THEN [id |-> k, body |-> <<3>> \o v]
                     ELSE [id |-> <<>>, body |-> <<>>]

RECURSIVE MP3SetAll(_, _, _, _)
MP3SetAll(frames, set, order, version) ==
    IF order = <<>> THEN frames
    ELSE LET f == MP3Frame(Head(order), set[Head(order)], version)
         IN MP3SetAll(IF f.id = <<>> THEN frames ELSE (f.id :> f.body) @@ frames,
                      set, Tail(order), version)

\* editMP3 after its dry-run test: the copy to outPath, Open, the deletions, the
\* sets and Save, for every order Go ranges over opts.Set and the library over
\* its frames.  When Open fails the copy has been written if outPath is another
\* path and nothing has if it is the input path.
MP3Save(data, set, del) ==
    LET t == ID3Open(data)
    IN IF t.err # "none" THEN {Fail, [err |-> "error", wrote |-> TRUE, out |-> data]}
       ELSE UNION { LET frames == MP3SetAll(MP3DeleteAll(t.frames, del), set, so, t.version)
                    IN {Ok(ID3Save(t, frames, fo)) : fo \in Orders(DOMAIN frames)}
                    : so \in Orders(DOMAIN set) }

editMP3_NoDryRun(data, set, del, dry) == MP3Save(data, set, del)

editMP3(data, set, del, dry) ==
    IF dry THEN {NoWrite} ELSE MP3Save(data, set, del)


(***************************************************************************)
(* GIF and WebP strip  (core/image/image.go)                               *)
(***************************************************************************)
\* the inner loop of stripGIF over the sub-blocks of a comment extension: the
\* offset after it
RECURSIVE GIFSkipSubBlocks(_, _)
GIFSkipSubBlocks(data, i) ==
    IF ~(i < Len(data)) THEN i
    ELSE IF data[i + 1] = 0 THEN i + 1
    ELSE GIFSkipSubBlocks(data, i + 1 + data[i + 1])

\* stripGIF's main loop from offset i: the bytes it writes.  Bytes that are
\* neither a trailer nor the start of a comment extension are copied one by one.
RECURSIVE GIFLoop(_, _)
GIFLoop(data, i) ==
    LET stops == {j \in i..(Len(data) - 1) :
                     \/ data[j + 1] = 59
                     \/ (data[j + 1] = 33 /\ j + 1 < Len(data) /\ data[j + 2] = 254)}
    IN IF stops = {} THEN From(data, MinOf({i, Len(data)}))
       ELSE LET j == MinOf(stops)
            IN Slice(data, i, j) \o
               (IF data[j + 1] = 59 THEN <<59>>
                ELSE GIFLoop(data, GIFSkipSubBlocks(data, j + 2)))

\* stripGIF; opts is not read
stripGIF(data) ==
    IF Len(data) < 13 THEN Fail
    ELSE LET ctSize == IF data[11] >= 128 THEN 3 * 2 ^ ((data[11] % 8) + 1) ELSE 0
         IN IF 13 + ctSize > Len(data) THEN Fail
            ELSE Ok(Slice(data, 0, 13 + ctSize) \o GIFLoop(data, 13 + ctSize))

TWEBP == <<87, 69, 66, 80>>
TEXIF == <<69, 88, 73, 70>>
TXMP  == <<88, 77, 80, 32>>

\* stripWebP's loop from offset: the bytes written to body
RECURSIVE WebPBody(_, _, _)
WebPBody(data, offset, strip) ==
    IF offset + 8 > Len(data) THEN <<>>
    ELSE IF data[offset + 8] >= 128 THEN <<>>      \* a size of 2^31 and more
    ELSE LET chunkID   == Slice(data, offset, offset + 4)
             chunkSize == LE32(Slice(data, offset + 4, offset + 8))
         IN IF offset + 8 + chunkSize > Len(data) THEN <<>>
            ELSE (IF strip /\ chunkID \in {TEXIF, TXMP} THEN <<>>
                  ELSE chunkID \o PutLE32(chunkSize)
                       \o Slice(data, offset + 8, offset + 8 + chunkSize)
                       \o (IF chunkSize % 2 # 0 THEN <<0>> ELSE <<>>))
                 \o WebPBody(data, offset + 8 + chunkSize + (chunkSize % 2), strip)

stripWebP(data, keep, all) ==
    IF Len(data) < 12 THEN Fail
    ELSE LET body == WebPBody(data, 12, all \/ Len(keep) = 0)
         IN Ok(TRIFF \o PutLE32(Len(body) + 4) \o TWEBP \o body)

(***************************************************************************)
(* MP3, PDF and OPC strip                                                  *)
(***************************************************************************)
\* stripMP3's list "all"
mp3StripFrames == <<<<84, 73, 84, 50>>, <<84, 80, 69, 49>>, <<84, 65, 76, 66>>, <<84, 68, 82, 67>>, <<84, 67, 79, 78>>, <<67, 79, 77, 77>>,
                    <<84, 82, 67, 75>>, <<84, 80, 69, 50>>, <<84, 67, 79, 77>>, <<85, 83, 76, 84>>, <<84, 67, 79, 80>>, <<84, 65, 76, 66>>>>

\* mp3FrameNameFromID
mp3FrameNameFromID(fid) ==
    IF \E i \in 1..Len(mp3FrameIDs) : mp3FrameIDs[i].id = fid
    THEN mp3FrameIDs[CHOOSE i \in 1..Len(mp3FrameIDs) : mp3FrameIDs[i].id = fid].name
    ELSE <<>>

\* stripMP3: every outcome the library's frame order allows
stripMP3(data, keep, dry) ==
    LET t == ID3Open(data)
        keepSet == {ToLower(keep[i]) : i \in 1..Len(keep)}
        gone == IF Len(keep) > 0
                THEN {mp3StripFrames[i] : i \in
                        {j \in 1..Len(mp3StripFrames) :
                            /\ ToLower(mp3FrameNameFromID(mp3StripFrames[j])) \notin keepSet
                            /\ ToLower(mp3StripFrames[j]) \notin keepSet}}
                ELSE DOMAIN t.frames
        frames == [f \in DOMAIN t.frames \ gone |-> t.frames[f]]
    IN IF dry THEN {NoWrite}
       ELSE IF t.err # "none" THEN {Fail, [err |-> "error", wrote |-> TRUE, out |-> data]}
       ELSE {Ok(ID3Save(t, frames, fo)) : fo \in Orders(DOMAIN frames)}

pdfInfoFields == <<<<84, 105, 116, 108, 101>>, <<65, 117, 116, 104, 111, 114>>, <<83, 117, 98, 106, 101, 99, 116>>, <<75, 101, 121, 119, 111, 114, 100, 115>>, <<67, 114, 101, 97, 116, 111, 114>>,
                   <<80, 114, 111, 100, 117, 99, 101, 114>>, <<67, 114, 101, 97, 116, 105, 111, 110, 68, 97, 116, 101>>, <<77, 111, 100, 68, 97, 116, 101>>, <<84, 114, 97, 112, 112, 101, 100>>>>

\* `/` + k + `\s*<[^>]*>\s*` at offset p: the end of the match or -1
PDFHexEntryEnd(data, p, k) ==
    IF ~HasPrefix(From(data, p), <<47>> \o k) THEN -1
    ELSE LET b == SkipReSpace(data, p + 1 + Len(k))
         IN IF b >= Len(data) \/ data[b + 1] # 60 THEN -1
            ELSE LET c == IndexByteFrom(data, 62, b + 1)
                 IN IF c < 0 THEN -1 ELSE SkipReSpace(data, c + 1)

PDFHexEntryEnds(data, k) == [p \in 0..(Len(data) - 1) |-> PDFHexEntryEnd(data, p, k)]

RECURSIVE PDFStripFields(_, _, _)
PDFStripFields(data, ks, keepSet) ==
    IF ks = <<>> THEN data
    ELSE IF Head(ks) \in keepSet THEN PDFStripFields(data, Tail(ks), keepSet)
    ELSE LET d1 == ReplaceAll(data, 0, PDFEntryLineEnds(data, Head(ks)), <<>>)
             d2 == ReplaceAll(d1, 0, PDFHexEntryEnds(d1, Head(ks)), <<>>)
         IN PDFStripFields(d2, Tail(ks), keepSet)

XPacketBegin == <<60, 63, 120, 112, 97, 99, 107, 101, 116, 32, 98, 101, 103, 105, 110>>
XPacketEnd   == <<60, 63, 120, 112, 97, 99, 107, 101, 116, 32, 101, 110, 100>>
XmpMetaOpen  == <<60, 120, 58, 120, 109, 112, 109, 101, 116, 97>>
XmpMetaClose == <<60, 47, 120, 58, 120, 109, 112, 109, 101, 116, 97, 62>>

IndexFrom(s, pat, i) ==
    IF i > Len(s) THEN -1
    ELSE LET k == Index(From(s, i), pat) IN IF k < 0 THEN -1 ELSE i + k

\* `(?s)<\?xpacket begin.*?<\?xpacket end[^>]*>` at offset p
XPacketEnds(data) ==
    [p \in 0..(Len(data) - 1) |->
        IF ~HasPrefix(From(data, p), XPacketBegin) THEN -1
        ELSE LET e == IndexFrom(data, XPacketEnd, p + Len(XPacketBegin))
             IN IF e < 0 THEN -1
                ELSE LET c == IndexByteFrom(data, 62, e + Len(XPacketEnd))
                     IN IF c < 0 THEN -1 ELSE c + 1]

\* `(?s)<x:xmpmeta.*?</x:xmpmeta>` at offset p
XmpMetaEnds(data) ==
    [p \in 0..(Len(data) - 1) |->
        IF ~HasPrefix(From(data, p), XmpMetaOpen) THEN -1
        ELSE LET e == IndexFrom(data, XmpMetaClose, p + Len(XmpMetaOpen))
             IN IF e < 0 THEN -1 ELSE e + Len(XmpMetaClose)]

stripPDF(data, keep, dry) ==
    LET keepSet == {keep[i] : i \in 1..Len(keep)}
        d1 == PDFStripFields(data, pdfInfoFields, keepSet)
        d2 == ReplaceAll(d1, 0, XPacketEnds(d1), <<>>)
        d3 == ReplaceAll(d2, 0, XmpMetaEnds(d2), <<>>)
    IN IF dry THEN NoWrite
       ELSE IF <<120, 109, 112>> \notin keepSet /\ <<88, 77, 80>> \notin keepSet THEN Ok(d3)
       ELSE Ok(d1)

blankCoreXML ==
    <<60, 63, 120, 109, 108, 32, 118, 101, 114, 115, 105, 111, 110, 61, 34, 49, 46, 48, 34, 32, 101, 110, 99, 111, 100, 105, 110, 103, 61, 34, 85, 84, 70, 45, 56, 34, 32, 115, 116, 97, 110, 100, 97, 108, 111, 110, 101, 61, 34, 121, 101, 115, 34, 63, 62, 10, 60, 99, 112, 58, 99, 111, 114, 101, 80, 114, 111, 112, 101, 114, 116, 105, 101, 115, 32, 120, 109, 108, 110, 115, 58, 99, 112, 61, 34, 104, 116, 116, 112, 58, 47, 47, 115, 99, 104, 101, 109, 97, 115, 46, 111, 112, 101, 110, 120, 109, 108, 102, 111, 114, 109, 97, 116, 115, 46, 111, 114, 103, 47, 112, 97, 99, 107, 97, 103, 101, 47, 50, 48, 48, 54, 47, 109, 101, 116, 97, 100, 97, 116, 97, 47, 99, 111, 114, 101, 45, 112, 114, 111, 112, 101, 114, 116, 105, 101, 115, 34, 10, 32, 32, 120, 109, 108, 110, 115, 58, 100, 99, 61, 34, 104, 116, 116, 112, 58, 47, 47, 112, 117, 114, 108, 46, 111, 114, 103, 47, 100, 99, 47, 101, 108, 101, 109, 101, 110, 116, 115, 47, 49, 46, 49, 47, 34, 10, 32, 32, 120, 109, 108, 110, 115, 58, 120, 115, 105, 61, 34, 104, 116, 116, 112, 58, 47, 47, 119, 119, 119, 46, 119, 51, 46, 111, 114, 103, 47, 50, 48, 48, 49, 47, 88, 77, 76, 83, 99, 104, 101, 109, 97, 45, 105, 110, 115, 116, 97, 110, 99, 101, 34, 62, 10, 60, 47, 99, 112, 58, 99, 111, 114, 101, 80, 114, 111, 112, 101, 114, 116, 105, 101, 115, 62>>

\* stripOPC; inplace as for editOPC
stripOPC(data, keep, dry, inplace) ==
    LET r == ZipRead(data, 0, <<>>)
    IN IF dry THEN NoWrite
       ELSE IF ~r.ok THEN Fail
       ELSE IF inplace
       THEN [err |-> IF r.File = <<>> THEN "none" ELSE "error",
             wrote |-> TRUE, out |-> ZipBytes(<<>>)]
       ELSE Ok(ZipBytes([i \in 1..Len(r.File) |->
                    IF r.File[i].name = CoreXMLName /\ Len(keep) = 0
                    THEN [r.File[i] EXCEPT !.content = blankCoreXML]
                    ELSE r.File[i]]))


(***************************************************************************)
(* Files and calls the dry-run checks run on                               *)
(***************************************************************************)
KTitleLower == <<116, 105, 116, 108, 101>>
KTitleCap   == <<84, 105, 116, 108, 101>>
KAuthor     == <<65, 117, 116, 104, 111, 114>>

MP3Audio  == <<255, 251, 144, 0, 1, 2>>
MP3NoTag  == MP3Audio
MP3Tagged ==
    ID3Save([version |-> 4, music |-> MP3Audio], <<84, 73, 84, 50>> :> <<3, 65>>, <<<<84, 73, 84, 50>>>>)

PDFDoc == <<37, 80, 68, 70, 45, 49, 46, 52, 10, 49, 32, 48, 32, 111, 98, 106, 10, 60, 60, 32, 47, 84, 105, 116, 108, 101, 32, 40, 65, 41, 32, 62, 62, 10, 101, 110, 100, 111, 98, 106, 10>>

CoreXML == <<60, 99, 112, 58, 99, 111, 114, 101, 80, 114, 111, 112, 101, 114, 116, 105, 101, 115, 62, 60, 100, 99, 58, 116, 105, 116, 108, 101, 62, 65, 60, 47, 100, 99, 58, 116, 105, 116, 108, 101, 62, 60, 47, 99, 112, 58, 99, 111, 114, 101, 80, 114, 111, 112, 101, 114, 116, 105, 101, 115, 62>>
DocxPkg ==
    ZipBytes(<<[name |-> <<119, 111, 114, 100, 47, 100, 111, 99, 117, 109, 101, 110, 116, 46, 120, 109, 108>>, content |-> <<60, 119, 58, 100, 111, 99, 117, 109, 101, 110, 116, 47, 62>>],
               [name |-> CoreXMLName, content |-> CoreXML]>>)

MP4Plain == FtypBox \o Box(Tmoov, MvhdBox) \o Box(Tmdat, <<1, 2, 3>>)

EditInputs == {JPEGWithExif, PNGOneText, FLACWithVC, MP3NoTag, MP3Tagged, PDFDoc, DocxPkg, MP4Plain}

MP3Sets == {NoSet, KTitleLower :> <<66>>}
MP3Dels == {<<>>, <<KTitleLower>>}

DocSets == {NoSet, KTitleCap :> <<66>>, KAuthor :> <<67>>}
DocDels == {<<>>, <<KTitleCap>>}

EditMP3 ==
    /\ nops < MaxOps
    /\ \E set \in MP3Sets, del \in MP3Dels, dry \in BOOLEAN :
         \E r \in editMP3(file, set, del, dry) :
            /\ file' = Written(r)
            /\ last' = OpRec("editMP3", set, del, dry, r)
    /\ before' = file
    /\ nops' = nops + 1
    /\ UNCHANGED fields

EditPDF ==
    /\ nops < MaxOps
    /\ \E set \in DocSets, del \in DocDels, dry \in BOOLEAN :
         \E r \in editPDF(file, set, del, dry) :
            /\ file' = Written(r)
            /\ last' = OpRec("editPDF", set, del, dry, r)
    /\ before' = file
    /\ nops' = nops + 1
    /\ UNCHANGED fields

EditOPC ==
    /\ nops < MaxOps
    /\ \E set \in DocSets, del \in DocDels, dry \in BOOLEAN, inplace \in BOOLEAN :
         \E r \in editOPC(file, set, del, dry, inplace) :
            /\ file' = Written(r)
            /\ last' = OpRec("editOPC", set, del, dry, r)
    /\ before' = file
    /\ nops' = nops + 1
    /\ UNCHANGED fields

InitEdit == InitWith(EditInputs)

NextEdit == EditJPEG \/ EditPNG \/ EditMP4 \/ EditFLAC \/ EditMP3 \/ EditPDF \/ EditOPC

SpecEdit == InitEdit /\ [][NextEdit]_vars

EditOps == {"editJPEG", "editPNG", "editMP4", "editFLAC", "editMP3", "editPDF", "editOPC"}

\* C14: an edit called with DryRun set writes nothing: the call reports no write
\* and the file is byte for byte what it was
C14_DryRunWritesNothing ==
    (last.op \in EditOps /\ last.dry) => (~last.wrote /\ file = before)

\* C14: editMP3 was called with DryRun set and a title to set on a tagged MP3,
\* a call that rewrites the tag when DryRun is clear
C14_Witness ==
    /\ last.op = "editMP3" /\ last.dry /\ DOMAIN last.set # {}
    /\ before = MP3Tagged
    /\ \E r \in editMP3(before, last.set, last.del, FALSE) : r.wrote /\ r.out # before

(***************************************************************************)
(* Formats, capabilities and dispatch                                      *)
(***************************************************************************)
ImageFormats    == {"jpeg", "png", "gif", "webp", "tiff", "bmp", "heic", "svg"}
AudioFormats    == {"mp3", "flac", "ogg", "m4a", "wav", "aiff", "opus"}
VideoFormats    == {"mp4", "mov", "mkv", "webm", "avi", "wmv", "flv"}
DocumentFormats == {"pdf", "docx", "xlsx", "pptx", "odt", "epub"}

FormatIDs == ImageFormats \cup AudioFormats \cup VideoFormats \cup DocumentFormats \cup {"unknown"}

\* MediaTypeFor
MediaTypeFor(id) ==
    CASE id \in ImageFormats    -> "image"
      [] id \in AudioFormats    -> "audio"
      [] id \in VideoFormats    -> "video"
      [] id \in DocumentFormats -> "document"
      [] OTHER                  -> "unknown"

Caps(edit, strip) == [CanEdit |-> edit, CanStrip |-> strip]

\* the formatInfo table of each handler package (CanEdit, CanStrip)
imageFormatInfo ==
    ("jpeg" :> Caps(TRUE, TRUE)) @@ ("png" :> Caps(TRUE, TRUE))
    @@ ("gif" :> Caps(FALSE, TRUE)) @@ ("webp" :> Caps(FALSE, TRUE))
    @@ ("tiff" :> Caps(FALSE, FALSE)) @@ ("bmp" :> Caps(FALSE, FALSE))
    @@ ("heic" :> Caps(FALSE, FALSE)) @@ ("svg" :> Caps(FALSE, FALSE))

audioFormatInfo ==
    ("mp3" :> Caps(TRUE, TRUE)) @@ ("flac" :> Caps(TRUE, TRUE))
    @@ ("ogg" :> Caps(FALSE, FALSE)) @@ ("opus" :> Caps(FALSE, FALSE))
    @@ ("m4a" :> Caps(FALSE, FALSE)) @@ ("wav" :> Caps(FALSE, TRUE))
    @@ ("aiff" :> Caps(FALSE, FALSE))

videoFormatInfo_MOVEditable ==
    ("mp4" :> Caps(TRUE, TRUE)) @@ ("mov" :> Caps(TRUE, TRUE))
    @@ ("mkv" :> Caps(FALSE, FALSE)) @@ ("webm" :> Caps(FALSE, FALSE))
    @@ ("avi" :> Caps(FALSE, FALSE)) @@ ("wmv" :> Caps(FALSE, FALSE))
    @@ ("flv" :> Caps(FALSE, FALSE))

videoFormatInfo ==
    ("mp4" :> Caps(TRUE, TRUE)) @@ ("mov" :> Caps(FALSE, TRUE))
    @@ ("mkv" :> Caps(FALSE, FALSE)) @@ ("webm" :> Caps(FALSE, FALSE))
    @@ ("avi" :> Caps(FALSE, FALSE)) @@ ("wmv" :> Caps(FALSE, FALSE))
    @@ ("flv" :> Caps(FALSE, FALSE))

documentFormatInfo ==
    ("pdf" :> Caps(TRUE, TRUE)) @@ ("docx" :> Caps(TRUE, TRUE))
    @@ ("xlsx" :> Caps(TRUE, TRUE)) @@ ("pptx" :> Caps(TRUE, TRUE))
    @@ ("odt" :> Caps(FALSE, FALSE)) @@ ("epub" :> Caps(FALSE, FALSE))

Packages == {"image", "audio", "video", "document"}

formatInfo(pkg) ==
    CASE pkg = "image"    -> imageFormatInfo
      [] pkg = "audio"    -> audioFormatInfo
      [] pkg = "video"    -> videoFormatInfo
      [] pkg = "document" -> documentFormatInfo

\* Handler.Info of a handler of package pkg made by New(format): a format the
\* table does not hold gives the zero FormatInfo
Info(pkg, format) ==
    IF format \in DOMAIN formatInfo(pkg) THEN formatInfo(pkg)[format] ELSE Caps(FALSE, FALSE)

\* the two errors of the default branch of Handler.Edit and Handler.Strip
Unsupported    == [err |-> "unsupported",     wrote |-> FALSE, out |-> <<>>]
NotImplemented == [err |-> "not implemented", wrote |-> FALSE, out |-> <<>>]

\* Handler.Edit of the four packages.  The OPC edit depends on whether outPath is
\* the input path; both are outcomes here.
HandlerEdit(pkg, format, data, set, del, dry) ==
    CASE pkg = "image" /\ format = "jpeg" -> editJPEG(data, set, del, dry)
      [] pkg = "image" /\ format = "png"  -> editPNG(data, set, del, dry)
      [] pkg = "audio" /\ format = "mp3"  -> editMP3(data, set, del, dry)
      [] pkg = "audio" /\ format = "flac" -> editFLAC(data, set, del, dry)
      [] pkg = "video" /\ format = "mp4"  ->
            {editMP4(data, set, order, del, dry) : order \in Orders(DOMAIN set)}
      [] pkg = "document" /\ format = "pdf" -> editPDF(data, set, del, dry)
      [] pkg = "document" /\ format \in {"docx", "xlsx", "pptx"} ->
            editOPC(data, set, del, dry, TRUE) \cup editOPC(data, set, del, dry, FALSE)
      [] OTHER -> IF ~Info(pkg, format).CanEdit THEN {Unsupported} ELSE {NotImplemented}

\* Handler.Strip of the four packages; opts holds keep, gps, all and the dry
\* field the strip functions of MP3, FLAC, MP4, PDF and OPC read
HandlerStrip(pkg, format, data, opts) ==
    CASE pkg = "image" /\ format = "jpeg" -> stripJPEG(data, opts.keep, opts.gps, opts.all)
      [] pkg = "image" /\ format = "png"  -> {stripPNG(data, opts.keep)}
      [] pkg = "image" /\ format = "gif"  -> {stripGIF(data)}
      [] pkg = "image" /\ format = "webp" -> {stripWebP(data, opts.keep, opts.all)}
      [] pkg = "audio" /\ format = "mp3"  -> stripMP3(data, opts.keep, opts.dry)
      [] pkg = "audio" /\ format = "flac" -> stripFLAC(data, opts.keep, opts.dry)
      [] pkg = "audio" /\ format = "wav"  -> {stripWAV(data)}
      [] pkg = "video" /\ format \in {"mp4", "mov"} -> {stripMP4(data, opts.dry)}
      [] pkg = "document" /\ format = "pdf" -> {stripPDF(data, opts.keep, opts.dry)}
      [] pkg = "document" /\ format \in {"docx", "xlsx", "pptx"} ->
            {stripOPC(data, opts.keep, opts.dry, TRUE), stripOPC(data, opts.keep, opts.dry, FALSE)}
      [] OTHER -> IF ~Info(pkg, format).CanStrip THEN {Unsupported} ELSE {NotImplemented}

(***************************************************************************)
(* Format detection and the strip command                                  *)
(***************************************************************************)
\* extMap
extMap == <<
    [ext |-> <<46, 106, 112, 103>>, id |-> "jpeg"],  [ext |-> <<46, 106, 112, 101, 103>>, id |-> "jpeg"],
    [ext |-> <<46, 112, 110, 103>>, id |-> "png"],   [ext |-> <<46, 103, 105, 102>>, id |-> "gif"],
    [ext |-> <<46, 119, 101, 98, 112>>, id |-> "webp"], [ext |-> <<46, 116, 105, 102, 102>>, id |-> "tiff"],
    [ext |-> <<46, 116, 105, 102>>, id |-> "tiff"],  [ext |-> <<46, 98, 109, 112>>, id |-> "bmp"],
    [ext |-> <<46, 104, 101, 105, 99>>, id |-> "heic"], [ext |-> <<46, 104, 101, 105, 102>>, id |-> "heic"],
    [ext |-> <<46, 115, 118, 103>>, id |-> "svg"],
    [ext |-> <<46, 109, 112, 51>>, id |-> "mp3"],   [ext |-> <<46, 102, 108, 97, 99>>, id |-> "flac"],
    [ext |-> <<46, 111, 103, 103>>, id |-> "ogg"],   [ext |-> <<46, 111, 103, 97>>, id |-> "ogg"],
    [ext |-> <<46, 109, 52, 97>>, id |-> "m4a"],   [ext |-> <<46, 97, 97, 99>>, id |-> "m4a"],
    [ext |-> <<46, 119, 97, 118>>, id |-> "wav"],   [ext |-> <<46, 119, 97, 118, 101>>, id |-> "wav"],
    [ext |-> <<46, 97, 105, 102>>, id |-> "aiff"],  [ext |-> <<46, 97, 105, 102, 102>>, id |-> "aiff"],
    [ext |-> <<46, 111, 112, 117, 115>>, id |-> "opus"],
    [ext |-> <<46, 109, 112, 52>>, id |-> "mp4"],   [ext |-> <<46, 109, 52, 118>>, id |-> "mp4"],
    [ext |-> <<46, 109, 111, 118>>, id |-> "mov"],   [ext |-> <<46, 113, 116>>, id |-> "mov"],
    [ext |-> <<46, 109, 107, 118>>, id |-> "mkv"],   [ext |-> <<46, 119, 101, 98, 109>>, id |-> "webm"],
    [ext |-> <<46, 97, 118, 105>>, id |-> "avi"],   [ext |-> <<46, 119, 109, 118>>, id |-> "wmv"],
    [ext |-> <<46, 102, 108, 118>>, id |-> "flv"],
    [ext |-> <<46, 112, 100, 102>>, id |-> "pdf"],   [ext |-> <<46, 100, 111, 99, 120>>, id |-> "docx"],
    [ext |-> <<46, 100, 111, 99, 109>>, id |-> "docx"], [ext |-> <<46, 120, 108, 115, 120>>, id |-> "xlsx"],
    [ext |-> <<46, 120, 108, 115, 109>>, id |-> "xlsx"], [ext |-> <<46, 112, 112, 116, 120>>, id |-> "pptx"],
    [ext |-> <<46, 112, 112, 116, 109>>, id |-> "pptx"], [ext |-> <<46, 111, 100, 116>>, id |-> "odt"],
    [ext |-> <<46, 111, 100, 115>>, id |-> "odt"],   [ext |-> <<46, 111, 100, 112>>, id |-> "odt"],
    [ext |-> <<46, 101, 112, 117, 98>>, id |-> "epub"] >>

detectMP4Subtype(b) ==
    IF Len(b) < 12 THEN "mp4"
    ELSE IF Slice(b, 8, 12) \in {<<77, 52, 65, 32>>, <<77, 52, 66, 32>>} THEN "m4a"
    ELSE IF Slice(b, 8, 12) = <<113, 116, 32, 32>> THEN "mov"
    ELSE "mp4"

detectMKVSubtype(b) == "mkv"

\* detectMagic on the first bytes of the file
detectMagic(b) ==
    IF Len(b) < 4 THEN "unknown"
    ELSE IF b[1] = 255 /\ b[2] = 216 /\ b[3] = 255 THEN "jpeg"
    ELSE IF HasPrefix(b, PNGSig) THEN "png"
    ELSE IF HasPrefix(b, <<71, 73, 70, 56, 55, 97>>) \/ HasPrefix(b, <<71, 73, 70, 56, 57, 97>>) THEN "gif"
    ELSE IF Len(b) >= 12 /\ Slice(b, 0, 4) = TRIFF /\ Slice(b, 8, 12) = TWEBP THEN "webp"
    ELSE IF HasPrefix(b, <<73, 73, 42, 0>>) \/ HasPrefix(b, <<77, 77, 0, 42>>) THEN "tiff"
    ELSE IF b[1] = 66 /\ b[2] = 77 THEN "bmp"
    ELSE IF HasPrefix(b, ID3Magic) THEN "mp3"
    ELSE IF b[1] = 255 /\ b[2] >= 224 THEN "mp3"
    ELSE IF HasPrefix(b, FlacMagic) THEN "flac"
    ELSE IF HasPrefix(b, <<79, 103, 103, 83>>) THEN "ogg"
    ELSE IF Len(b) >= 12 /\ Slice(b, 0, 4) = TRIFF /\ Slice(b, 8, 12) = TWAVE THEN "wav"
    ELSE IF Len(b) >= 12 /\ Slice(b, 0, 4) = <<70, 79, 82, 77>>
               /\ Slice(b, 8, 12) \in {<<65, 73, 70, 70>>, <<65, 73, 70, 67>>} THEN "aiff"
    ELSE IF Len(b) >= 8 /\ Slice(b, 4, 8) = Tftyp THEN detectMP4Subtype(b)
    ELSE IF SubSeq(b, 1, 4) = <<26, 69, 223, 163>> THEN detectMKVSubtype(b)
    ELSE IF Len(b) >= 12 /\ Slice(b, 0, 4) = TRIFF /\ Slice(b, 8, 12) = <<65, 86, 73, 32>> THEN "avi"
    ELSE IF HasPrefix(b, <<70, 76, 86>>) THEN "flv"
    ELSE IF HasPrefix(b, <<37, 80, 68, 70>>) THEN "pdf"
    ELSE IF HasPrefix(b, ZipLocal) THEN "docx"
    ELSE "unknown"

\* DetectFormat of a file named with extension ext ("" when the name has no
\* dot): the format and whether an error is returned
DetectFormat(ext, data) ==
    LET buf  == SubSeq(data, 1, MinOf({16, Len(data)}))
        hits == {i \in 1..Len(extMap) : extMap[i].ext = ToLower(ext)}
    IN IF Len(data) = 0 THEN [id |-> "unknown", err |-> TRUE]
       ELSE IF detectMagic(buf) # "unknown" THEN [id |-> detectMagic(buf), err |-> FALSE]
       ELSE IF hits # {} THEN [id |-> extMap[CHOOSE i \in hits : TRUE].id, err |-> FALSE]
       ELSE [id |-> "unknown", err |-> FALSE]

\* runStrip from getHandler on: --dry-run is read but is no part of the options
\* Handler.Strip is called with
runStrip(ext, data, keepFlags, gpsOnly, dryRun) ==
    LET opts   == [keep |-> keepFlags, gps |-> gpsOnly,
                   all |-> Len(keepFlags) = 0 /\ ~gpsOnly, dry |-> FALSE]
        fmtID  == DetectFormat(ext, data)
        pkg    == MediaTypeFor(fmtID.id)
    IN IF fmtID.err \/ fmtID.id = "unknown" \/ pkg = "unknown" THEN {Fail}
       ELSE IF ~Info(pkg, fmtID.id).CanStrip THEN {Fail}
       ELSE HandlerStrip(pkg, fmtID.id, data, opts)

(***************************************************************************)
(* Files and calls the handler and command checks run on                   *)
(***************************************************************************)
\* "GIF89a", a 1x1 screen without colour table, a comment extension "A", an
\* image with one data sub-block, the trailer
GIFSmall ==
    <<71, 73, 70, 56, 57, 97>> \o <<1, 0, 1, 0, 0, 0, 0>> \o <<33, 254, 1, 65, 0>>
    \o <<44, 0, 0, 0, 0, 1, 0, 1, 0, 0>> \o <<2, 2, 76, 1, 0>> \o <<59>>

WebPSmall ==
    LET body == <<86, 80, 56, 32>> \o PutLE32(2) \o <<1, 2>> \o TEXIF \o PutLE32(1) \o <<9, 0>>
    IN TRIFF \o PutLE32(Len(body) + 4) \o TWEBP \o body

WAVSmall == WAVOf(WFmt \o WList \o WData)

\* GIFs whose image data holds the byte 3B, and the pair 21 FE
GIFData3B ==
    <<71, 73, 70, 56, 57, 97>> \o <<1, 0, 1, 0, 0, 0, 0>>
    \o <<44, 0, 0, 0, 0, 1, 0, 1, 0, 0>> \o <<2, 2, 59, 1, 0>> \o <<59>>

GIFData21FE ==
    <<71, 73, 70, 56, 57, 97>> \o <<1, 0, 1, 0, 0, 0, 0>> \o <<33, 254, 1, 65, 0>>
    \o <<44, 0, 0, 0, 0, 1, 0, 1, 0, 0>> \o <<2, 3, 33, 254, 1, 0>> \o <<59>>

HandlerInputs ==
    {JPEGPlain, PNGOneText, GIFSmall, WebPSmall, WAVSmall, FLACWithVC, MP3Tagged, MP4Plain,
     PDFDoc, DocxPkg, NotWAV, GIFData3B, GIFData21FE}

HandlerSets == {NoSet, KArtistTag :> <<67>>}

\* the handler New(format) of package pkg
NewRec(pkg, format) == [pkg |-> pkg, format |-> format] @@ [NoOp EXCEPT !.op = "New"]

Edit ==
    /\ nops < MaxOps
    /\ \E set \in HandlerSets, dry \in BOOLEAN :
         \E r \in HandlerEdit(last.pkg, last.format, file, set, <<>>, dry) :
            /\ file' = Written(r)
            /\ last' = [pkg |-> last.pkg, format |-> last.format]
                       @@ OpRec("Handler.Edit", set, <<>>, dry, r)
    /\ before' = file
    /\ nops' = nops + 1
    /\ UNCHANGED fields

Strip ==
    /\ nops < MaxOps
    /\ \E o \in StripOpts, dry \in BOOLEAN :
         \E r \in HandlerStrip(last.pkg, last.format, file,
                               [keep |-> o.keep, gps |-> o.gps, all |-> o.all, dry |-> dry]) :
            /\ file' = Written(r)
            /\ last' = [pkg |-> last.pkg, format |-> last.format]
                       @@ StripRec("Handler.Strip", o.keep, o.gps, o.all, dry, r)
    /\ before' = file
    /\ nops' = nops + 1
    /\ UNCHANGED fields

InitHandlers ==
    /\ file \in HandlerInputs
    /\ before = file
    /\ \E pkg \in Packages, format \in FormatIDs : last = NewRec(pkg, format)
    /\ fields = <<>>
    /\ nops = 0

NextHandlers == Edit \/ Strip

SpecHandlers == InitHandlers /\ [][NextHandlers]_vars

\* file name extensions of the command's argument
CLIExts == {<<>>, <<46, 119, 97, 118>>, <<46, 74, 80, 71>>, <<46, 120, 108, 115, 120>>}

CLIInputs == HandlerInputs \cup {<<>>, <<112, 108, 97, 105, 110, 32, 116, 101, 120, 116>>}

RunStrip ==
    /\ nops < MaxOps
    /\ \E ext \in CLIExts, keep \in {<<>>, <<KeepExif>>}, gpsOnly \in BOOLEAN, dryRun \in BOOLEAN :
         \E r \in runStrip(ext, file, keep, gpsOnly, dryRun) :
            /\ file' = Written(r)
            /\ last' = [ext |-> ext]
                       @@ StripRec("runStrip", keep, gpsOnly, Len(keep) = 0 /\ ~gpsOnly, dryRun, r)
    /\ before' = file
    /\ nops' = nops + 1
    /\ UNCHANGED fields

InitCLI == InitWith(CLIInputs)

NextCLI == RunStrip

SpecCLI == InitCLI /\ [][NextCLI]_vars

\* C15: the strip command run with --dry-run writes nothing: the call reports no
\* write and the file is byte for byte what it was
C15_StripDryRunWritesNothing ==
    (last.op = "runStrip" /\ last.dry) => (~last.wrote /\ file = before)


\* the magic bytes at the start of data are those of the format: ftyp for the
\* MP4 family, PK 03 04 for the ZIP family, the EBML header for MKV and WebM
MagicMatches(format, data) ==
    LET m == detectMagic(SubSeq(data, 1, MinOf({16, Len(data)})))
    IN \/ m = format
       \/ format \in {"mp4", "mov", "m4a"} /\ m \in {"mp4", "mov", "m4a"}
       \/ format \in {"docx", "xlsx", "pptx", "odt", "epub"} /\ m = "docx"
       \/ format \in {"mkv", "webm"} /\ m = "mkv"

\* C16: an edit or strip by a handler whose format's magic the buffer does not
\* start with returns an error and writes nothing
C16_FlavorIsolation ==
    (last.op \in {"Handler.Edit", "Handler.Strip"} /\ ~MagicMatches(last.format, before)) =>
        (last.err # "none" /\ ~last.wrote /\ file = before)

\* C20: Handler.Edit of a format whose CanEdit is false, and Handler.Strip of a
\* format whose CanStrip is false, return an error and write nothing; a format
\* whose CanEdit (CanStrip) is true reaches an edit (strip) function, never the
\* errors of the default branch
C20_CapabilityGating ==
    /\ (last.op = "Handler.Edit" /\ ~Info(last.pkg, last.format).CanEdit) =>
            (last.err # "none" /\ ~last.wrote /\ file = before)
    /\ (last.op = "Handler.Strip" /\ ~Info(last.pkg, last.format).CanStrip) =>
            (last.err # "none" /\ ~last.wrote /\ file = before)
    /\ (last.op = "Handler.Edit" /\ Info(last.pkg, last.format).CanEdit) =>
            last.err \notin {"unsupported", "not implemented"}
    /\ (last.op = "Handler.Strip" /\ Info(last.pkg, last.format).CanStrip) =>
            last.err \notin {"unsupported", "not implemented"}

\* C20: the video handler of MOV, which can strip and cannot edit, was asked to
\* edit an MP4 file and refused
C20_Witness ==
    /\ last.op = "Handler.Edit" /\ last.pkg = "video" /\ last.format = "mov"
    /\ ~last.dry /\ DOMAIN last.set # {}
    /\ before = MP4Plain /\ last.err = "unsupported"


(***************************************************************************)
(* editFLAC and stripFLAC on FLAC streams of several shapes                *)
(***************************************************************************)
\* a Vorbis comment block with vendor "v" and the comments "A=1", "A=2", "T=x"
VCDup == PutLE32(1) \o <<118>> \o PutLE32(3)
         \o PutLE32(3) \o <<65, 61, 49>> \o PutLE32(3) \o <<65, 61, 50>>
         \o PutLE32(3) \o <<84, 61, 120>>

\* STREAMINFO, a comment block with a repeated key, audio
FLACDupVC       == FlacMagic \o <<0, 0, 0, 2, 1, 2>> \o <<132, 0, 0, Len(VCDup)>> \o VCDup \o <<9, 9>>
\* STREAMINFO, PADDING and PICTURE, then five audio bytes
FLACThreeBlocks == FlacMagic \o <<0, 0, 0, 2, 1, 2>> \o <<1, 0, 0, 1, 0>> \o <<134, 0, 0, 1, 7>>
                   \o <<255, 248, 9, 9, 9>>
\* STREAMINFO alone, flagged last
FLACOneBlock    == FlacMagic \o <<128, 0, 0, 2, 1, 2>> \o <<9, 9>>
\* no block carries the last flag; the file ends one byte after STREAMINFO
FLACNoLast      == FlacMagic \o <<0, 0, 0, 2, 1, 2>> \o <<9>>
\* the magic and nothing else
FLACOnlyMagic   == FlacMagic
\* the only block is a PICTURE
FLACPictureOnly == FlacMagic \o <<134, 0, 0, 1, 7>> \o <<255, 248, 9, 9, 9>>

FLACFiles == FLACInputs \cup {FLACDupVC, FLACThreeBlocks, FLACOneBlock, FLACNoLast,
                              FLACOnlyMagic, FLACPictureOnly}

InitFLAC == InitWith(FLACFiles)

NextFLAC == EditFLAC \/ StripFLAC

SpecFLAC == InitFLAC /\ [][NextFLAC]_vars

\* the upper-cased keys an edit request names
FLACAsked(set, del) ==
    {ToUpper(k) : k \in DOMAIN set} \cup {ToUpper(del[i]) : i \in 1..Len(del)}

\* C17: editFLAC with a non-empty Set on a stream that parses to at least one
\* block, none of type 4, writes the input's blocks with one type-4 block put
\* at index 1: block 0 stays first, the others follow the new block in their
\* order with their type and payload, the new block holds the keys set and not
\* deleted, and the bytes after the blocks are the input's audio bytes
C17_NewCommentBlockAfterFirst ==
    LET p == parseFLACBlocks(before)
        q == parseFLACBlocks(file)
    IN (/\ last.op = "editFLAC" /\ ~last.dry /\ DOMAIN last.set # {}
        /\ HasPrefix(before, FlacMagic)
        /\ p.err = "none" /\ Len(p.blocks) >= 1 /\ VorbisIdx(p.blocks) = 0) =>
           /\ last.wrote /\ last.err = "none"
           /\ HasPrefix(file, FlacMagic)
           /\ q.err = "none"
           /\ Len(q.blocks) = Len(p.blocks) + 1
           /\ q.blocks[1] = p.blocks[1]
           /\ q.blocks[2].blockType = 4
           /\ \A i \in 2..Len(p.blocks) : q.blocks[i + 1] = p.blocks[i]
           /\ DOMAIN parseVorbisComments(q.blocks[2].data, NoSet) =
                 {ToUpper(k) : k \in DOMAIN last.set}
                 \ {ToUpper(last.del[i]) : i \in 1..Len(last.del)}
           /\ From(file, q.audioStart) = From(before, p.audioStart)

\* C17: STREAMINFO, PADDING, PICTURE and audio were edited with Set {t: y} and
\* the written file has four blocks, the second of type 4
C17_Witness ==
    /\ last.op = "editFLAC" /\ ~last.dry /\ DOMAIN last.set = {KT} /\ last.del = <<>>
    /\ before = FLACThreeBlocks
    /\ last.wrote
    /\ Len(parseFLACBlocks(file).blocks) = 4
    /\ parseFLACBlocks(file).blocks[2].blockType = 4
    /\ parseFLACBlocks(file).blocks[4].blockType = 6

\* how many metadata block headers of d, read from offset i up to offset stop,
\* have the last-flag bit set
RECURSIVE FLACLastFlags(_, _, _)
FLACLastFlags(d, i, stop) ==
    IF i + 4 > stop THEN 0
    ELSE (IF d[i + 1] >= 128 THEN 1 ELSE 0)
         + FLACLastFlags(d, i + 4 + (d[i + 2] * 256 + d[i + 3]) * 256 + d[i + 4], stop)

\* C18: a file written by editFLAC or stripFLAC has exactly one metadata block
\* with the last-flag bit set, the final one, so that parseFLACBlocks stops at
\* the end of the blocks written and what follows is the input's audio
C18_OneLastFlag ==
    LET p == parseFLACBlocks(before)
        q == parseFLACBlocks(file)
    IN (last.op \in {"editFLAC", "stripFLAC"} /\ last.wrote) =>
           /\ q.err = "none"
           /\ Len(q.blocks) >= 1
           /\ FLACLastFlags(file, 4, q.audioStart) = 1
           /\ file[q.audioStart - Len(q.blocks[Len(q.blocks)].data) - 3] >= 128
           /\ From(file, q.audioStart) = From(before, p.audioStart)

\* the comments of a Vorbis comment payload in file order, keys upper-cased,
\* each as <<key, value>>
RECURSIVE VorbisList(_, _, _, _)
VorbisList(data, pos, i, count) ==
    IF ~(i < count /\ pos + 4 <= Len(data)) THEN <<>>
    ELSE LET cLen == LE32(Slice(data, pos, pos + 4))
         IN IF pos + 4 + cLen > Len(data) THEN <<>>
            ELSE LET comment == Slice(data, pos + 4, pos + 4 + cLen)
                     eq      == IndexByte(comment, 61)
                 IN (IF eq > 0 THEN << <<ToUpper(Slice(comment, 0, eq)), From(comment, eq + 1)>> >>
                     ELSE <<>>)
                    \o VorbisList(data, pos + 4 + cLen, i + 1, count)

\* the comments of the first VORBIS_COMMENT block of stream d
FLACComments(d) ==
    LET p     == parseFLACBlocks(d)
        vcIdx == IF p.err = "none" THEN VorbisIdx(p.blocks) ELSE 0
    IN IF vcIdx = 0 THEN <<>>
       ELSE LET data == p.blocks[vcIdx].data
                pos  == 4 + LE32(Slice(data, 0, 4))
            IN IF Len(data) < 4 \/ pos + 4 > Len(data) THEN <<>>
               ELSE VorbisList(data, pos + 4, 0, LE32(Slice(data, pos, pos + 4)))

\* C19: after an editFLAC that wrote, the comments whose key the request does
\* not name are those of the input, all of them and in the input's order
C19_OtherCommentsKept ==
    LET asked == FLACAsked(last.set, last.del)
        other(c) == c[1] \notin asked
    IN (/\ last.op = "editFLAC" /\ last.wrote
        /\ HasPrefix(before, FlacMagic) /\ parseFLACBlocks(before).err = "none") =>
           SelectSeq(FLACComments(file), other) = SelectSeq(FLACComments(before), other)


(***************************************************************************)
(* Requests naming only fields without an EXIF tag                         *)
(***************************************************************************)
\* C21: editJPEG with a non-empty Set none of whose keys is in exifTagIDs and an
\* empty Delete returns an error and writes nothing, whether or not the input
\* holds an EXIF APP1 segment
C21_OnlyUnmappedKeysFail ==
    (/\ last.op = "editJPEG"
     /\ DOMAIN last.set # {} /\ DOMAIN last.set \cap ExifNames = {}
     /\ last.del = <<>>) =>
        (last.err # "none" /\ ~last.wrote /\ file = before)


(***************************************************************************)
(* View of WAV, AVI and FLV files                                          *)
(***************************************************************************)
\* cap() of the slice os.ReadFile returns for a file of n bytes: room for the
\* file and one more byte, never less than 512; the bytes between len and cap
\* are zero
ReadFileCap(n) == IF n + 1 < 512 THEN 512 ELSE n + 1

\* the slice expression data[lo:hi] on that buffer, for hi within its capacity:
\* Go bounds a slice of a slice by the capacity, so hi may pass len(data)
Reslice(data, lo, hi) == [k \in 1..(hi - lo) |-> IF lo + k <= Len(data) THEN data[lo + k] ELSE 0]

\* what a view function returns: err is "none", "error" or "panic"; past tells
\* that a slice expression took bytes at or beyond len(data)
Viewed(err, flds, past) == [err |-> err, fields |-> flds, past |-> past]

\* int(binary.LittleEndian.Uint32(b)) where only "greater than any offset"
\* matters once the top bit is set
ChunkSize(b) == IF b[4] >= 128 THEN 2147483647 ELSE LE32(b)

CatWAVHeader == <<87, 65, 86, 32, 72, 101, 97, 100, 101, 114>>
CatWAVInfo   == <<87, 65, 86, 32, 73, 78, 70, 79>>
CatWAVID3    == <<87, 65, 86, 32, 73, 68, 51>>
CatAVIInfo   == <<65, 86, 73, 32, 73, 78, 70, 79>>
CatAVIHeader == <<65, 86, 73, 32, 72, 101, 97, 100, 101, 114>>
CatFLVHeader == <<70, 76, 86, 32, 72, 101, 97, 100, 101, 114>>
CatFLVMeta   == <<70, 76, 86, 32, 77, 101, 116, 97, 100, 97, 116, 97>>
TINFO == <<73, 78, 70, 79>>
Tavih == <<97, 118, 105, 104>>

\* infoChunkNames
infoChunkNames ==
    (<<73, 65, 82, 76>> :> <<65, 114, 99, 104, 105, 118, 97, 108, 76, 111, 99, 97, 116, 105, 111, 110>>) @@ (<<73, 65, 82, 84>> :> <<65, 114, 116, 105, 115, 116>>)
    @@ (<<73, 67, 77, 83>> :> <<67, 111, 109, 109, 105, 115, 115, 105, 111, 110, 101, 100>>) @@ (<<73, 67, 77, 84>> :> <<67, 111, 109, 109, 101, 110, 116>>)
    @@ (<<73, 67, 79, 80>> :> <<67, 111, 112, 121, 114, 105, 103, 104, 116>>) @@ (<<73, 67, 82, 68>> :> <<68, 97, 116, 101, 67, 114, 101, 97, 116, 101, 100>>)
    @@ (<<73, 67, 82, 80>> :> <<67, 114, 111, 112, 112, 101, 100>>) @@ (<<73, 68, 73, 77>> :> <<68, 105, 109, 101, 110, 115, 105, 111, 110, 115>>)
    @@ (<<73, 68, 80, 73>> :> <<68, 111, 116, 115, 80, 101, 114, 73, 110, 99, 104>>) @@ (<<73, 69, 78, 71>> :> <<69, 110, 103, 105, 110, 101, 101, 114>>)
    @@ (<<73, 71, 78, 82>> :> <<71, 101, 110, 114, 101>>) @@ (<<73, 75, 69, 89>> :> <<75, 101, 121, 119, 111, 114, 100, 115>>)
    @@ (<<73, 76, 71, 84>> :> <<76, 105, 103, 104, 116, 110, 101, 115, 115>>) @@ (<<73, 77, 69, 68>> :> <<77, 101, 100, 105, 117, 109>>)
    @@ (<<73, 78, 65, 77>> :> <<84, 105, 116, 108, 101>>) @@ (<<73, 80, 76, 84>> :> <<78, 117, 109, 98, 101, 114, 79, 102, 67, 111, 108, 111, 114, 115>>)
    @@ (<<73, 80, 82, 68>> :> <<80, 114, 111, 100, 117, 99, 116>>) @@ (<<73, 83, 66, 74>> :> <<83, 117, 98, 106, 101, 99, 116>>)
    @@ (<<73, 83, 70, 84>> :> <<83, 111, 102, 116, 119, 97, 114, 101>>) @@ (<<73, 83, 72, 80>> :> <<83, 104, 97, 114, 112, 110, 101, 115, 115>>)
    @@ (<<73, 83, 82, 67>> :> <<83, 111, 117, 114, 99, 101>>) @@ (<<73, 83, 82, 70>> :> <<83, 111, 117, 114, 99, 101, 70, 111, 114, 109>>)
    @@ (<<73, 84, 67, 72>> :> <<84, 101, 99, 104, 110, 105, 99, 105, 97, 110>>)

\* the loop over the entries of a LIST INFO chunk, shared by viewWAV (named
\* TRUE: keys go through infoChunkNames) and viewAVI
RECURSIVE InfoLoop(_, _, _, _, _)
InfoLoop(data, pos, end, named, cat) ==
    IF ~(pos + 8 <= end) THEN <<>>
    ELSE LET infoID   == Slice(data, pos, pos + 4)
             infoSize == ChunkSize(Slice(data, pos + 4, pos + 8))
         IN IF infoSize > end - (pos + 8) THEN <<>>
            ELSE LET val  == TrimRightNul(Slice(data, pos + 8, pos + 8 + infoSize))
                     name == IF named /\ infoID \in DOMAIN infoChunkNames
                             THEN infoChunkNames[infoID] ELSE infoID
                 IN (IF val # <<>> THEN <<Field(name, val, cat, FALSE)>> ELSE <<>>)
                    \o InfoLoop(data, pos + 8 + infoSize + (infoSize % 2), end, named, cat)

\* t.Title() of tag.ReadFrom on the whole file (the dhowden/tag library): a file
\* under 128 bytes that does not start with an ID3v2, FLAC, Ogg or MP4 magic has
\* no tag the library reads; any other file may or may not give a title
TagTitles(data) ==
    IF Len(data) < 128 /\ ~HasPrefix(data, ID3Magic) /\ ~HasPrefix(data, FlacMagic)
    THEN {<<>>}
    ELSE {<<>>, <<84>>}

\* viewWAV's chunk loop from offset: every field list it may add
RECURSIVE WAVViewLoop(_, _)
WAVViewLoop(data, offset) ==
    IF ~(offset + 8 <= Len(data)) THEN {<<>>}
    ELSE LET chunkID   == Slice(data, offset, offset + 4)
             chunkSize == ChunkSize(Slice(data, offset + 4, offset + 8))
             start     == offset + 8
         IN IF chunkSize > Len(data) - start THEN {<<>>}
            ELSE LET info == IF chunkID = TLIST /\ start + 4 <= Len(data)
                                /\ Slice(data, start, start + 4) = TINFO
                             THEN InfoLoop(data, start + 4, start + chunkSize, TRUE, CatWAVInfo)
                             ELSE <<>>
                     id3s == IF chunkID \in {Tid3, TID3}
                             THEN {IF t = <<>> THEN <<>>
                                   ELSE <<Field(<<84, 105, 116, 108, 101>>, t, CatWAVID3, FALSE)>>
                                   : t \in TagTitles(data)}
                             ELSE {<<>>}
                 IN {info \o i \o r : i \in id3s,
                        r \in WAVViewLoop(data, start + chunkSize + (chunkSize % 2))}

\* viewWAV: the three header fields are read at offsets 22 to 36 after a test of
\* len(data) >= 12 only
viewWAV(data) ==
    IF Len(data) < 12 THEN {Viewed("error", <<>>, FALSE)}
    ELSE IF 36 > ReadFileCap(Len(data)) THEN {Viewed("panic", <<>>, FALSE)}
    ELSE LET sampleRate    == Reslice(data, 24, 28)
             channels      == Reslice(data, 22, 24)
             bitsPerSample == Reslice(data, 34, 36)
             head == << Field(<<83, 97, 109, 112, 108, 101, 82, 97, 116, 101>>,
                              (IF sampleRate[4] >= 128 THEN <<>> ELSE Dec(LE32(sampleRate)))
                              \o <<32, 72, 122>>, CatWAVHeader, FALSE),
                        Field(<<67, 104, 97, 110, 110, 101, 108, 115>>, Dec(LE16(channels)), CatWAVHeader, FALSE),
                        Field(<<66, 105, 116, 115, 80, 101, 114, 83, 97, 109, 112, 108, 101>>, Dec(LE16(bitsPerSample)), CatWAVHeader, FALSE) >>
         IN {Viewed("none", head \o r, 36 > Len(data)) : r \in WAVViewLoop(data, 12)}

\* viewAVI's chunk loop: the fields added, and whether the avih branch sliced
\* past len(data) or past the capacity
RECURSIVE AVIViewLoop(_, _, _, _)
AVIViewLoop(data, offset, acc, past) ==
    IF ~(offset + 8 <= Len(data)) THEN Viewed("none", acc, past)
    ELSE LET chunkID   == Slice(data, offset, offset + 4)
             chunkSize == ChunkSize(Slice(data, offset + 4, offset + 8))
             start     == offset + 8
         IN IF chunkSize > Len(data) - start THEN Viewed("none", acc, past)
            ELSE LET info == IF chunkID = TLIST /\ chunkSize >= 4
                                /\ Slice(data, start, start + 4) = TINFO
                             THEN InfoLoop(data, start + 4, start + chunkSize, FALSE, CatAVIInfo)
                             ELSE <<>>
                     avih == chunkID = Tavih /\ chunkSize >= 32
                     width  == Reslice(data, start + 32, start + 36)
                     height == Reslice(data, start + 36, start + 40)
                     dims == << Field(<<87, 105, 100, 116, 104>>,
                                      (IF width[4] >= 128 THEN <<>> ELSE Dec(LE32(width)))
                                      \o <<32, 112, 120>>, CatAVIHeader, FALSE),
                                Field(<<72, 101, 105, 103, 104, 116>>,
                                      (IF height[4] >= 128 THEN <<>> ELSE Dec(LE32(height)))
                                      \o <<32, 112, 120>>, CatAVIHeader, FALSE) >>
                 IN IF avih /\ start + 40 > ReadFileCap(Len(data))
                    THEN Viewed("panic", acc \o info, past)
                    ELSE AVIViewLoop(data, start + chunkSize + (chunkSize % 2),
                                     acc \o info \o (IF avih THEN dims ELSE <<>>),
                                     past \/ (avih /\ start + 40 > Len(data)))

viewAVI(data) ==
    IF Len(data) < 12 THEN Viewed("error", <<>>, FALSE)
    ELSE AVIViewLoop(data, 12, <<>>, FALSE)

\* fmt.Sprintf("%g", f) of the float64 with the bits b: kept as "%g" followed by
\* the eight bytes, the decimal rendering is not computed
AMFNumber(b) == <<37, 103>> \o b

\* parseAMFMetadata's loop over the ECMA array in rest; a break inside the
\* switch leaves the switch, not the loop
RECURSIVE AMFLoop(_, _, _, _)
AMFLoop(rest, pos, i, count) ==
    IF ~(i < count /\ pos + 2 < Len(rest)) THEN <<>>
    ELSE LET kLen == BE16(Slice(rest, pos, pos + 2))
             kpos == pos + 2
         IN IF kpos + kLen >= Len(rest) THEN <<>>
            ELSE LET key  == Slice(rest, kpos, kpos + kLen)
                     typ  == rest[kpos + kLen + 1]
                     vpos == kpos + kLen + 1
                     sLen == BE16(Slice(rest, vpos, vpos + 2))
                     got  == IF typ = 0 /\ vpos + 8 <= Len(rest)
                             THEN [val |-> AMFNumber(Slice(rest, vpos, vpos + 8)), pos |-> vpos + 8]
                             ELSE IF typ = 1 /\ vpos < Len(rest)
                             THEN [val |-> IF rest[vpos + 1] # 0 THEN <<116, 114, 117, 101>> ELSE <<102, 97, 108, 115, 101>>,
                                   pos |-> vpos + 1]
                             ELSE IF typ = 2 /\ vpos + 2 <= Len(rest)
                             THEN IF vpos + 2 + sLen > Len(rest)
                                  THEN [val |-> <<>>, pos |-> vpos + 2]
                                  ELSE [val |-> Slice(rest, vpos + 2, vpos + 2 + sLen),
                                        pos |-> vpos + 2 + sLen]
                             ELSE [val |-> <<>>, pos |-> vpos]
                 IN (IF key # <<>> /\ got.val # <<>>
                     THEN <<Field(key, got.val, CatFLVMeta, FALSE)>> ELSE <<>>)
                    \o AMFLoop(rest, got.pos, i + 1, count)

parseAMFMetadata(data) ==
    IF Len(data) < 3 \/ data[1] # 2 THEN <<>>
    ELSE LET strLen == BE16(Slice(data, 1, 3))
         IN IF 3 + strLen >= Len(data) THEN <<>>
            ELSE IF Slice(data, 3, 3 + strLen) # <<111, 110, 77, 101, 116, 97, 68, 97, 116, 97>> THEN <<>>
            ELSE LET rest == From(data, 3 + strLen)
                 IN IF rest[1] # 8 \/ Len(rest) < 5 THEN <<>>
                    ELSE AMFLoop(rest, 5, 0, ChunkSize(<<rest[5], rest[4], rest[3], rest[2]>>))

\* viewFLV's loop over the tags: the script tag's data is sliced by its
\* declared size with no test against len(data)
RECURSIVE FLVViewLoop(_, _, _)
FLVViewLoop(data, offset, head) ==
    IF ~(offset + 11 < Len(data)) THEN Viewed("none", head, FALSE)
    ELSE LET tagType  == data[offset + 1]
             dataSize == (data[offset + 2] * 256 + data[offset + 3]) * 256 + data[offset + 4]
         IN IF tagType = 18 /\ dataSize > 0
            THEN IF offset + 11 + dataSize > ReadFileCap(Len(data))
                 THEN Viewed("panic", head, FALSE)
                 ELSE Viewed("none",
                             head \o parseAMFMetadata(Reslice(data, offset + 11,
                                                              offset + 11 + dataSize)),
                             offset + 11 + dataSize > Len(data))
            ELSE FLVViewLoop(data, offset + 11 + dataSize + 4, head)

viewFLV(data) ==
    IF Len(data) < 9 THEN Viewed("error", <<>>, FALSE)
    ELSE LET bool(b) == IF b THEN <<116, 114, 117, 101>> ELSE <<102, 97, 108, 115, 101>>
             head == << Field(<<86, 101, 114, 115, 105, 111, 110>>, Dec(data[4]), CatFLVHeader, FALSE),
                        Field(<<72, 97, 115, 86, 105, 100, 101, 111>>, bool(data[5] % 2 = 1), CatFLVHeader, FALSE),
                        Field(<<72, 97, 115, 65, 117, 100, 105, 111>>, bool((data[5] \div 4) % 2 = 1), CatFLVHeader, FALSE) >>
         IN IF data[6] >= 128 THEN Viewed("none", head, FALSE)
            ELSE FLVViewLoop(data, BE32(Slice(data, 5, 9)) + 4, head)


\* a WAV file: fmt chunk, LIST INFO with INAM "T", an id3 chunk, data
WAVViewFile ==
    TRIFF \o PutLE32(68) \o TWAVE
    \o <<102, 109, 116, 32>> \o PutLE32(16) \o <<1, 0, 2, 0, 68, 172, 0, 0, 16, 177, 2, 0, 4, 0, 16, 0>>
    \o TLIST \o PutLE32(14) \o TINFO \o <<73, 78, 65, 77>> \o PutLE32(2) \o <<84, 0>>
    \o Tid3 \o PutLE32(2) \o <<1, 2>>
    \o <<100, 97, 116, 97>> \o PutLE32(2) \o <<8, 9>>

\* an AVI file: LIST INFO with ISFT "x", then a top-level avih chunk of 32 bytes
AVIViewFile ==
    TRIFF \o PutLE32(66) \o <<65, 86, 73, 32>>
    \o TLIST \o PutLE32(14) \o TINFO \o <<73, 83, 70, 84>> \o PutLE32(2) \o <<120, 0>>
    \o Tavih \o PutLE32(32) \o Zeros(32)

\* an FLV file whose script tag holds onMetaData with one boolean, one string
\* and one number
FLVViewFile ==
    <<70, 76, 86>> \o <<1, 5>> \o PutBE32(9) \o <<0, 0, 0, 0>>
    \o <<18, 0, 0, 42, 0, 0, 0, 0, 0, 0, 0>>
    \o <<2, 0, 10>> \o <<111, 110, 77, 101, 116, 97, 68, 97, 116, 97>> \o <<8, 0, 0, 0, 3>>
    \o <<0, 1>> \o <<115>> \o <<1, 1>>
    \o <<0, 1>> \o <<116>> \o <<2, 0, 1>> \o <<118>>
    \o <<0, 1>> \o <<110>> \o <<0, 64, 0, 0, 0, 0, 0, 0, 0>>

Prefixes(d) == {SubSeq(d, 1, n) : n \in 0..Len(d)}

ViewInputs == Prefixes(WAVViewFile) \cup Prefixes(AVIViewFile) \cup Prefixes(FLVViewFile)

ViewRec(op, v) ==
    [past |-> v.past] @@ OpRec(op, NoSet, <<>>, FALSE, [err |-> v.err, wrote |-> FALSE])

ViewWAV ==
    /\ nops < MaxOps
    /\ \E v \in viewWAV(file) :
          /\ fields' = v.fields
          /\ last' = ViewRec("viewWAV", v)
    /\ before' = file
    /\ nops' = nops + 1
    /\ UNCHANGED file

ViewAVI ==
    /\ nops < MaxOps
    /\ LET v == viewAVI(file)
       IN /\ fields' = v.fields
          /\ last' = ViewRec("viewAVI", v)
    /\ before' = file
    /\ nops' = nops + 1
    /\ UNCHANGED file

ViewFLV ==
    /\ nops < MaxOps
    /\ LET v == viewFLV(file)
       IN /\ fields' = v.fields
          /\ last' = ViewRec("viewFLV", v)
    /\ before' = file
    /\ nops' = nops + 1
    /\ UNCHANGED file

InitViews == InitWith(ViewInputs)

NextViews == ViewWAV \/ ViewAVI \/ ViewFLV

SpecViews == InitViews /\ [][NextViews]_vars

\* C22: viewWAV, viewAVI and viewFLV never take bytes at or beyond the length
\* of the buffer, and never panic on a slice bound: a short file gives an error
\* or the fields read so far
C22_ViewsStayInBounds ==
    (last.op \in {"viewWAV", "viewAVI", "viewFLV"}) => (last.err # "panic" /\ ~last.past)


(***************************************************************************)
(* walkMP4Boxes one loop iteration at a time                               *)
(***************************************************************************)
\* int64(binary.BigEndian.Uint64(b)) for the 8-byte values whose magnitude is
\* below 2^31: a first bit of 1 makes the value negative (two's complement)
Int64(b) ==
    IF b[1] >= 128
    THEN 0 - 1 - BE32(<<255 - b[5], 255 - b[6], 255 - b[7], 255 - b[8]>>)
    ELSE BE32(SubSeq(b, 5, 8))

\* a call of walkMP4Boxes in progress: its pos and limit, and ret, the offset
\* its caller seeks to when it returns (-1 for the call made by viewMP4)
WalkFrame(pos, limit, ret) == [pos |-> pos, limit |-> limit, ret |-> ret]

\* the walk of viewMP4: r's offset, the calls in progress (innermost last),
\* whether the outermost call has returned, and "panic" after make([]byte, n)
\* with a negative n
Walk(rp, stack, done, err, flds) ==
    [rp |-> rp, stack |-> stack, done |-> done, err |-> err, fields |-> flds]

\* the innermost call returns with r at offset rp: its caller seeks to ret
WalkReturn(w, rp) ==
    LET n == Len(w.stack)
    IN IF n = 1 THEN Walk(rp, w.stack, TRUE, "none", w.fields)
       ELSE Walk(SeekTo(rp, w.stack[n].ret), SubSeq(w.stack, 1, n - 1), FALSE, "none", w.fields)

\* the innermost call goes on to its next iteration: pos += size
WalkOn(w, rp, size, flds) ==
    Walk(rp, [w.stack EXCEPT ![Len(w.stack)].pos = @ + size], FALSE, "none", flds)

\* one iteration of the for loop of the innermost call of walkMP4Boxes, or its
\* return
WalkIter(data, w) ==
    LET top   == w.stack[Len(w.stack)]
        depth == Len(w.stack) - 1
        rp    == w.rp
    IN
    IF depth > WalkDepthLimit THEN WalkReturn(w, rp)
    ELSE IF top.limit >= 0 /\ top.pos >= top.limit THEN WalkReturn(w, rp)
    ELSE IF rp + 8 > Len(data) THEN WalkReturn(w, ReadPos(data, rp, 8))
    ELSE
    LET size32  == BE32(Slice(data, rp, rp + 4))
        boxType == Slice(data, rp + 4, rp + 8)
        ext     == size32 = 1
    IN
    IF ext /\ rp + 16 > Len(data) THEN WalkReturn(w, ReadPos(data, rp + 8, 8))
    ELSE
    LET size     == IF ext THEN Int64(Slice(data, rp + 8, rp + 16)) ELSE size32
        dataSize == IF ext THEN size - 16 ELSE size32 - 8
        curPos   == IF ext THEN rp + 16 ELSE rp + 8
        panicked == Walk(curPos, w.stack, TRUE, "panic", w.fields)
    IN
    IF size = 0 THEN WalkReturn(w, curPos)
    ELSE IF boxType = Tftyp THEN
        WalkOn(w, SeekTo(ReadPos(data, curPos, 4), curPos + dataSize), size,
               Append(w.fields, Field(<<66, 114, 97, 110, 100>>,
                                      TrimSpace(ReadBuf(data, curPos, 4)),
                                      "MP4 Container", FALSE)))
    ELSE IF boxType \in {Tmoov, Tudta, Tmeta, Tilst} THEN
        LET start == IF boxType = Tmeta THEN curPos + 4 ELSE curPos
            outer == WalkOn(w, start, size, w.fields)
        IN [outer EXCEPT !.stack = Append(@, WalkFrame(start, curPos + dataSize,
                                                       curPos + dataSize))]
    ELSE IF boxType = Tmvhd THEN
        IF min64(dataSize, 108) < 0 THEN panicked
        ELSE
        LET n    == min64(dataSize, 108)
            buf  == ReadBuf(data, curPos, n)
            emit == n >= 20 /\ buf[1] = 0 /\ BE32(Slice(buf, 12, 16)) > 0
            f    == Field(<<68, 117, 114, 97, 116, 105, 111, 110>>,
                          formatDuration(BE32(Slice(buf, 16, 20)) \div BE32(Slice(buf, 12, 16))),
                          "MP4 Container", FALSE)
        IN WalkOn(w, SeekTo(ReadPos(data, curPos, n), curPos + dataSize), size,
                  IF emit THEN Append(w.fields, f) ELSE w.fields)
    ELSE IF boxType \in ItunesCaseLabels THEN
        IF dataSize < 0 THEN panicked
        ELSE
        LET val  == extractiTunesData(ReadBuf(data, curPos, dataSize))
            name == IF ItunesName(boxType) = <<>> THEN boxType ELSE ItunesName(boxType)
        IN WalkOn(w, ReadPos(data, curPos, dataSize), size,
                  IF val # <<>> THEN Append(w.fields, Field(name, val, "iTunes Metadata", TRUE))
                  ELSE w.fields)
    ELSE IF boxType = Tfree THEN
        IF dataSize < 0 THEN panicked
        ELSE
        LET kv == parseFreeformAtom(ReadBuf(data, curPos, dataSize))
        IN WalkOn(w, ReadPos(data, curPos, dataSize), size,
                  IF kv.key # <<>> /\ kv.val # <<>>
                  THEN Append(w.fields, Field(kv.key, kv.val, "iTunes Custom", FALSE))
                  ELSE w.fields)
    ELSE WalkOn(w, SeekTo(curPos, curPos + dataSize), size, w.fields)


\* MP4 files for the walk: sizes below the header size, an extended size, a
\* negative extended size, containers nested deeper than the depth guard
Tskip == <<115, 107, 105, 112>>

\* size32 = 1 followed by the 64-bit size
ExtBox(tag, size8, payload) == <<0, 0, 0, 1>> \o tag \o size8 \o payload

RECURSIVE NestedMoov(_)
NestedMoov(n) == IF n = 0 THEN <<>> ELSE Box(Tmoov, NestedMoov(n - 1))

\* declared sizes 4 and 2, smaller than the 8 header bytes
WalkSmallSizes == FtypBox \o <<0, 0, 0, 4>> \o Tskip \o <<0, 0, 0, 2>> \o Tskip \o Box(Tmdat, <<1, 2>>)
\* an extended size of 20: 16 header bytes and 4 of payload
WalkExtended   == FtypBox \o ExtBox(Tmdat, <<0, 0, 0, 0, 0, 0, 0, 20>>, <<1, 2, 3, 4>>)
                  \o Box(Tskip, <<>>)
\* a first box with extended size -16: the seek target is negative
WalkNegFirst   == ExtBox(Tmdat, <<255, 255, 255, 255, 255, 255, 255, 240>>, <<>>) \o Box(Tskip, <<>>)
\* an 8-byte box, then a box with extended size -8
WalkNegBack    == Box(Tskip, <<>>) \o ExtBox(Tmdat, <<255, 255, 255, 255, 255, 255, 255, 248>>, <<>>)
\* the same inside moov
WalkNegInMoov  == Box(Tmoov, Box(Tskip, <<>>)
                             \o ExtBox(Tskip, <<255, 255, 255, 255, 255, 255, 255, 248>>, <<>>))
\* a "desc" atom of declared size 4
WalkNegAtom    == FtypBox \o <<0, 0, 0, 4>> \o KDesc \o Box(Tskip, <<>>)
\* eleven moov boxes one inside the other
WalkDeep       == NestedMoov(11)

WalkInputs == {MP4Plain, WalkSmallSizes, WalkExtended, WalkNegFirst, WalkNegBack,
               WalkNegInMoov, WalkNegAtom, WalkDeep, <<>>, <<0, 0, 0>>,
               FtypBox \o Box(Tmoov, MvhdBox \o UdtaBox(ItAtom(KDesc, ValOld)))}

WalkRec(w) ==
    [rp |-> w.rp, stack |-> w.stack, done |-> w.done]
    @@ OpRec("walkMP4Boxes", NoSet, <<>>, FALSE, [err |-> w.err, wrote |-> FALSE])

Walking == last.op = "walkMP4Boxes" /\ ~last.done

\* viewMP4 opens the file and calls walkMP4Boxes(f, 0, -1, m, 0)
ViewMP4Begin ==
    /\ nops < MaxOps
    /\ ~Walking
    /\ last' = WalkRec(Walk(0, <<WalkFrame(0, -1, -1)>>, FALSE, "none", <<>>))
    /\ fields' = <<>>
    /\ before' = file
    /\ nops' = nops + 1
    /\ UNCHANGED file

\* the walk takes one iteration
WalkStep ==
    /\ Walking
    /\ LET w == WalkIter(file, Walk(last.rp, last.stack, FALSE, "none", fields))
       IN /\ last' = WalkRec(w)
          /\ fields' = w.fields
    /\ UNCHANGED <<file, before, nops>>

InitWalk == InitWith(WalkInputs)

NextWalk == ViewMP4Begin \/ WalkStep

\* the walk is a sequential loop: an iteration that can run does run
SpecWalk == InitWalk /\ [][NextWalk]_vars /\ WF_vars(WalkStep)

\* C23: every walk viewMP4 starts comes to an end, and no call of walkMP4Boxes
\* is ever more than one level beyond the depth guard
C23_WalkTerminates ==
    /\ [](Walking => Len(last.stack) - 1 <= WalkDepthLimit + 1)
    /\ (Walking ~> (last.op = "walkMP4Boxes" /\ last.done))


(***************************************************************************)
(* DetectFormat on named files                                             *)
(***************************************************************************)
ExtXLSX == <<46, 120, 108, 115, 120>>
ExtPPTX == <<46, 112, 112, 116, 120>>
ExtODT  == <<46, 111, 100, 116>>
ExtEPUB == <<46, 101, 112, 117, 98>>
ExtWebM == <<46, 119, 101, 98, 109>>

\* the EBML magic and the start of a header
EBMLFile == <<26, 69, 223, 163>> \o <<132, 66, 130, 132>> \o <<119, 101, 98, 109>>

DetectExts == {<<>>, ExtXLSX, ExtPPTX, ExtODT, ExtEPUB, ExtWebM,
               <<46, 100, 111, 99, 120>>, <<46, 109, 107, 118>>, <<46, 87, 65, 86>>}

DetectInputs == CLIInputs \cup {EBMLFile}

\* DetectFormat(path) on the file under a name with extension ext
DetectFile ==
    /\ nops < MaxOps
    /\ \E ext \in DetectExts :
         LET d == DetectFormat(ext, file)
         IN last' = [ext |-> ext, id |-> d.id]
                    @@ OpRec("DetectFormat", NoSet, <<>>, FALSE,
                             [err |-> IF d.err THEN "error" ELSE "none", wrote |-> FALSE])
    /\ before' = file
    /\ nops' = nops + 1
    /\ UNCHANGED <<file, fields>>

InitDetect == InitWith(DetectInputs)

NextDetect == DetectFile

SpecDetect == InitDetect /\ [][NextDetect]_vars

\* C24: a file with the ZIP magic named .xlsx, .pptx, .odt or .epub is detected
\* as that format, and a file with the EBML magic named .webm as WebM
C24_ExtensionResolvesFamily ==
    (last.op = "DetectFormat") =>
        /\ (HasPrefix(file, ZipLocal) /\ last.ext = ExtXLSX) => last.id = "xlsx"
        /\ (HasPrefix(file, ZipLocal) /\ last.ext = ExtPPTX) => last.id = "pptx"
        /\ (HasPrefix(file, ZipLocal) /\ last.ext = ExtODT)  => last.id = "odt"
        /\ (HasPrefix(file, ZipLocal) /\ last.ext = ExtEPUB) => last.id = "epub"
        /\ (HasPrefix(file, <<26, 69, 223, 163>>) /\ last.ext = ExtWebM) => last.id = "webm"


(***************************************************************************)
(* GIF block structure                                                     *)
(***************************************************************************)
\* the offset after the data sub-blocks that start at offset i of d (each a
\* length byte and that many bytes, ended by a zero length), -1 when they run
\* past the end
RECURSIVE GIFSubBlocksEnd(_, _)
GIFSubBlocksEnd(d, i) ==
    IF i >= Len(d) THEN -1
    ELSE IF d[i + 1] = 0 THEN i + 1
    ELSE GIFSubBlocksEnd(d, i + 1 + d[i + 1])

GIFTableSize(flags) == IF flags >= 128 THEN 3 * 2 ^ ((flags % 8) + 1) ELSE 0

\* the blocks of d from offset i up to and including the trailer, without the
\* comment extensions; ok is FALSE when d is not a sequence of image
\* descriptors with their data, extensions and a trailer
RECURSIVE GIFBlocksNoComment(_, _)
GIFBlocksNoComment(d, i) ==
    LET bad == [ok |-> FALSE, out |-> <<>>]
    IN
    IF i >= Len(d) THEN bad
    ELSE IF d[i + 1] = 59 THEN [ok |-> TRUE, out |-> <<59>>]
    ELSE IF d[i + 1] = 33 THEN
        IF i + 2 > Len(d) \/ GIFSubBlocksEnd(d, i + 2) < 0 THEN bad
        ELSE LET e == GIFSubBlocksEnd(d, i + 2)
                 r == GIFBlocksNoComment(d, e)
             IN [ok |-> r.ok,
                 out |-> (IF d[i + 2] = 254 THEN <<>> ELSE Slice(d, i, e)) \o r.out]
    ELSE IF d[i + 1] = 44 THEN
        IF i + 10 > Len(d) THEN bad
        ELSE LET j == i + 10 + GIFTableSize(d[i + 10]) + 1
                 e == GIFSubBlocksEnd(d, j)
             IN IF e < 0 THEN bad
                ELSE LET r == GIFBlocksNoComment(d, e)
                     IN [ok |-> r.ok, out |-> Slice(d, i, e) \o r.out]
    ELSE bad

GIFHeaderEnd(d) == 13 + GIFTableSize(d[11])

WellFormedGIF(d) ==
    /\ Len(d) >= 13
    /\ Slice(d, 0, 6) \in {<<71, 73, 70, 56, 55, 97>>, <<71, 73, 70, 56, 57, 97>>}
    /\ GIFHeaderEnd(d) <= Len(d)
    /\ GIFBlocksNoComment(d, GIFHeaderEnd(d)).ok

\* C25: stripGIF of a well-formed GIF writes the header, screen descriptor and
\* global colour table, then every block up to and including the trailer except
\* the comment extensions, byte for byte
C25_StripGIFDropsCommentsOnly ==
    (/\ last.op = "Handler.Strip" /\ last.pkg = "image" /\ last.format = "gif"
     /\ WellFormedGIF(before)) =>
        /\ last.wrote
        /\ file = Slice(before, 0, GIFHeaderEnd(before))
                  \o GIFBlocksNoComment(before, GIFHeaderEnd(before)).out


(***************************************************************************)
(* EBML sizes  (core/video/video.go)                                       *)
(***************************************************************************)
\* readEBMLSize with the marker bit of a two-byte size left in the value
readEBMLSize_MarkerKept(data, pos) ==
    IF pos >= Len(data) THEN [size |-> 0, length |-> 0]
    ELSE LET b == data[pos + 1]
         IN IF b >= 128 THEN [size |-> b % 128, length |-> 1]
            ELSE IF (b \div 64) % 2 = 1 /\ pos + 1 < Len(data)
                 THEN [size |-> b * 256 + data[pos + 2], length |-> 2]
            ELSE IF (b \div 32) % 2 = 1 /\ pos + 2 < Len(data)
                 THEN [size |-> ((b % 32) * 256 + data[pos + 2]) * 256 + data[pos + 3],
                       length |-> 3]
            ELSE IF (b \div 16) % 2 = 1 /\ pos + 3 < Len(data)
                 THEN [size |-> (((b % 16) * 256 + data[pos + 2]) * 256 + data[pos + 3]) * 256
                                + data[pos + 4],
                       length |-> 4]
            ELSE IF (b \div 8) % 2 = 1 /\ pos + 4 < Len(data)
                 THEN [size |-> BEn(<<b % 8>> \o Slice(data, pos + 1, pos + 5)), length |-> 5]
            ELSE [size |-> -1, length |-> 1]

\* readEBMLSize(data, pos): the size and the number of bytes it took
readEBMLSize(data, pos) ==
    IF pos >= Len(data) THEN [size |-> 0, length |-> 0]
    ELSE LET b == data[pos + 1]
         IN IF b >= 128 THEN [size |-> b % 128, length |-> 1]
            ELSE IF (b \div 64) % 2 = 1 /\ pos + 1 < Len(data)
                 THEN [size |-> (b % 64) * 256 + data[pos + 2], length |-> 2]
            ELSE IF (b \div 32) % 2 = 1 /\ pos + 2 < Len(data)
                 THEN [size |-> ((b % 32) * 256 + data[pos + 2]) * 256 + data[pos + 3],
                       length |-> 3]
            ELSE IF (b \div 16) % 2 = 1 /\ pos + 3 < Len(data)
                 THEN [size |-> (((b % 16) * 256 + data[pos + 2]) * 256 + data[pos + 3]) * 256
                                + data[pos + 4],
                       length |-> 4]
            ELSE IF (b \div 8) % 2 = 1 /\ pos + 4 < Len(data)
                 THEN [size |-> BEn(<<b % 8>> \o Slice(data, pos + 1, pos + 5)), length |-> 5]
            ELSE [size |-> -1, length |-> 1]

\* first bytes with each marker position, with bits below the marker set and
\* clear, and without a marker in the first five positions
EBMLFirstBytes == {0, 1, 4, 7, 8, 16, 17, 31, 32, 33, 63, 64, 65, 127, 128, 129, 255}

\* the bytes after the first: none to four of them
EBMLTails == Prefixes(<<1, 2, 3, 4>>) \cup Prefixes(<<127, 255, 0, 255>>)

\* buffers in which a size starts at offset 0 or, after one ID byte, at offset 1
EBMLInputs == {<<b>> \o t : b \in EBMLFirstBytes, t \in EBMLTails}
              \cup {<<236, b>> \o t : b \in {64, 8, 130}, t \in EBMLTails}

ReadEBMLSize ==
    /\ nops < MaxOps
    /\ \E pos \in 0..2 :
         LET r == readEBMLSize(file, pos)
         IN last' = [pos |-> pos, size |-> r.size, length |-> r.length]
                    @@ OpRec("readEBMLSize", NoSet, <<>>, FALSE, NoWrite)
    /\ before' = file
    /\ nops' = nops + 1
    /\ UNCHANGED <<file, fields>>

InitEBML == InitWith(EBMLInputs)

NextEBML == ReadEBMLSize

SpecEBML == InitEBML /\ [][NextEBML]_vars

\* the width the byte b declares: the 1-based position of its highest set bit
\* when that is within the first five, 0 otherwise
EBMLWidth(b) ==
    IF b >= 128 THEN 1 ELSE IF b >= 64 THEN 2 ELSE IF b >= 32 THEN 3
    ELSE IF b >= 16 THEN 4 ELSE IF b >= 8 THEN 5 ELSE 0

\* C26: for a size read at an offset inside the buffer, with w the width its
\* first byte declares: when w is 1..5 and w bytes are there the result is the
\* big-endian value of the w bytes without the marker bit, and the width w;
\* otherwise it is (-1, 1)
C26_EBMLSizeDecoding ==
    (last.op = "readEBMLSize" /\ last.pos < Len(file)) =>
        LET w     == EBMLWidth(file[last.pos + 1])
            bytes == Slice(file, last.pos, last.pos + w)
        IN IF w >= 1 /\ last.pos + w <= Len(file)
           THEN /\ last.length = w
                /\ last.size = BEn(<<bytes[1] % 2 ^ (8 - w)>> \o Tail(bytes))
           ELSE last.size = -1 /\ last.length = 1

\* C26: a three-byte size 21 01 02 was read as 0x010102 with width 3
C26_Witness ==
    /\ last.op = "readEBMLSize" /\ last.pos = 0
    /\ file = <<33, 1, 2>>
    /\ last.length = 3 /\ last.size = 65794


(***************************************************************************)
(* PNG chunk order after an edit                                           *)
(***************************************************************************)
\* the keywords of the tEXt chunks among cs
TextKeys(cs) == {TextKey(cs[i]) : i \in TextAt(cs)}

\* C27: when editPNG wrote its output for a tiled PNG whose last chunk is
\* IEND, the last chunk of the output is IEND and every tEXt chunk whose
\* keyword the input did not have lies before every IDAT chunk
C27_NewTextBeforeIDATAndIENDLast ==
    (/\ last.op = "editPNG" /\ last.wrote
     /\ TiledPNG(before)
     /\ ChunksFrom(before, 8) # <<>>
     /\ ChunksFrom(before, 8)[Len(ChunksFrom(before, 8))].typ = TIEND) =>
        LET old == ChunksFrom(before, 8)
            cs  == ChunksFrom(file, 8)
        IN /\ TiledPNG(file)
           /\ cs # <<>> /\ cs[Len(cs)].typ = TIEND
           /\ \A i \in TextAt(cs) :
                TextKey(cs[i]) \notin TextKeys(old) =>
                    \A j \in 1..Len(cs) : cs[j].typ = TIDAT => i < j


(***************************************************************************)
(* JPEG segment lengths                                                    *)
(***************************************************************************)
\* a value of 65520 letters: with it the EXIF block buildMinimalEXIF builds
\* for one field is 65553 bytes long
LongValue == [i \in 1..65520 |-> 65]

JPEGLongSets == JPEGSets \cup {KMake :> LongValue}

EditJPEGLong ==
    /\ nops < MaxOps
    /\ \E set \in JPEGLongSets, del \in JPEGDels, dry \in BOOLEAN :
         \E r \in editJPEG(file, set, del, dry) :
            /\ file' = Written(r)
            /\ last' = OpRec("editJPEG", set, del, dry, r)
    /\ before' = file
    /\ nops' = nops + 1
    /\ UNCHANGED fields

InitJPEGLong == InitWith(JPEGInputs)

NextJPEGLong == EditJPEGLong

SpecJPEGLong == InitJPEGLong /\ [][NextJPEGLong]_vars

\* C28: when editJPEG added an EXIF APP1 segment to a JPEG that had none and
\* wrote its output, the segment follows SOI and its two length bytes hold the
\* length of the block buildMinimalEXIF built plus 2
C28_SegmentLengthNoWrap ==
    (/\ last.op = "editJPEG" /\ last.wrote
     /\ parseJPEGSegments(before).err = "none"
     /\ ExifSegIdx(parseJPEGSegments(before).segs) = 0
     /\ DOMAIN last.set # {}) =>
        \E order \in Orders(DOMAIN last.set) :
            LET b == buildMinimalEXIF(last.set, order)
            IN /\ b.err = "none"
               /\ Len(file) >= 6 + Len(b.out)
               /\ Slice(file, 2, 4) = <<255, 225>>
               /\ BE16(Slice(file, 4, 6)) = Len(b.out) + 2
               /\ Slice(file, 6, 6 + Len(b.out)) = b.out


(***************************************************************************)
(* Determinism of the edits                                                *)
(***************************************************************************)
\* every result the edit op may give for the same file and the same request
EditOutcomes(op, data, set, del, dry) ==
    IF op = "editJPEG" THEN editJPEG(data, set, del, dry)
    ELSE IF op = "editPNG" THEN editPNG(data, set, del, dry)
    ELSE IF op = "editFLAC" THEN editFLAC(data, set, del, dry)
    ELSE IF op = "editMP4"
         THEN {editMP4(data, set, order, del, dry) : order \in Orders(DOMAIN set)}
    ELSE {}

\* C29: after editJPEG, editPNG, editFLAC or editMP4 was called with two or more
\* keys to set and wrote its output, every other run on the same input with the
\* same request writes the same bytes
C29_EditIsDeterministic ==
    (/\ last.op \in {"editJPEG", "editPNG", "editFLAC", "editMP4"}
     /\ Cardinality(DOMAIN last.set) >= 2
     /\ last.wrote) =>
        \A r \in EditOutcomes(last.op, before, last.set, last.del, last.dry) :
            r.wrote /\ r.out = file


(***************************************************************************)
(* Layout of the EXIF block buildMinimalEXIF builds                        *)
(***************************************************************************)
KModel == <<77, 111, 100, 101, 108>>      \* "Model"

\* values of 0, 3, 4 and 6 bytes: with the NUL the first two fit the four
\* bytes of an entry, the last two do not
ExifVals == {<<>>, <<97, 98, 99>>, <<97, 98, 99, 100>>, <<104, 101, 108, 108, 111, 33>>}

ExifKeys == {KMake, KModel, KArtistTag, KRating}

\* the field maps handed to buildMinimalEXIF
ExifFieldMaps == UNION {[S -> ExifVals] : S \in (SUBSET ExifKeys) \ {{}}}

\* buildMinimalEXIF applied to the map in `fields`
BuildMinimalEXIF ==
    /\ nops < MaxOps
    /\ \E order \in Orders(DOMAIN fields) :
         LET b == buildMinimalEXIF(fields, order)
         IN last' = [out |-> b.out]
                    @@ OpRec("buildMinimalEXIF", fields, <<>>, FALSE,
                             IF b.err = "none" THEN NoWrite ELSE Fail)
    /\ before' = file
    /\ nops' = nops + 1
    /\ UNCHANGED <<file, fields>>

InitEXIF ==
    /\ file = <<>>
    /\ before = file
    /\ last = NoOp
    /\ fields \in ExifFieldMaps
    /\ nops = 0

NextEXIF == BuildMinimalEXIF

SpecEXIF == InitEXIF /\ [][NextEXIF]_vars

\* the i-th 12-byte entry of the IFD at offset 8 of the TIFF block t
IFDEntry(t, i) == Slice(t, 10 + 12 * (i - 1), 10 + 12 * i)

\* the bytes of t an entry's value occupies outside the IFD: none when inline
ValueSpan(t, i) ==
    LET e == IFDEntry(t, i)
    IN IF LE32(Slice(e, 4, 8)) <= 4 THEN {}
       ELSE LE32(Slice(e, 8, 12))..(LE32(Slice(e, 8, 12)) + LE32(Slice(e, 4, 8)) - 1)

\* C30: the block buildMinimalEXIF returns is "Exif\0\0" and a little-endian
\* TIFF header pointing at offset 8, where the IFD holds one ASCII entry per
\* recognised field, each tag once, with count = len(value) + 1; a value of at
\* most 4 bytes with its NUL is in the entry, zero-padded; a longer value's
\* offset points behind the IFD at exactly the value's bytes and NUL, and no
\* two values share a byte
C30_MinimalEXIFLayout ==
    (last.op = "buildMinimalEXIF" /\ last.err = "none") =>
        LET t     == From(last.out, 6)
            known == DOMAIN last.set \cap ExifNames
            n     == Cardinality(known)
        IN /\ Slice(last.out, 0, 6) = ExifHeader
           /\ Slice(t, 0, 4) = TiffLE
           /\ LE32(Slice(t, 4, 8)) = 8
           /\ LE16(Slice(t, 8, 10)) = n
           /\ Len(t) >= 10 + 12 * n + 4
           /\ Slice(t, 10 + 12 * n, 14 + 12 * n) = <<0, 0, 0, 0>>
           /\ {LE16(Slice(IFDEntry(t, i), 0, 2)) : i \in 1..n} = {ExifTagOf(k) : k \in known}
           /\ \A i \in 1..n :
                LET e   == IFDEntry(t, i)
                    val == last.set[ExifNameOf(LE16(Slice(e, 0, 2)))] \o <<0>>
                    off == LE32(Slice(e, 8, 12))
                IN /\ LE16(Slice(e, 2, 4)) = 2
                   /\ LE32(Slice(e, 4, 8)) = Len(val)
                   /\ IF Len(val) <= 4
                      THEN Slice(e, 8, 12) = val \o Zeros(4 - Len(val))
                      ELSE /\ off >= 14 + 12 * n
                           /\ off + Len(val) <= Len(t)
                           /\ Slice(t, off, off + Len(val)) = val
           /\ \A i, j \in 1..n : i # j => ValueSpan(t, i) \cap ValueSpan(t, j) = {}

\* C30: a block was built for three fields, two of them with values longer
\* than an entry holds and one short, and an unrecognised key beside them
C30_Witness ==
    /\ last.op = "buildMinimalEXIF" /\ last.err = "none"
    /\ DOMAIN last.set = ExifKeys
    /\ Len(last.set[KMake]) = 6 /\ Len(last.set[KModel]) = 4 /\ Len(last.set[KArtistTag]) = 3
    /\ Len(last.out) = 6 + 8 + 2 + 36 + 4 + 7 + 5


=============================================================================
